---- MODULE Spec2Model ----
(***************************************************************************)
(* Cellular template processor: transport layer (core/api_manager.py),     *)
(* image routing (core/evaluator.py, core/file_handler.py), extraction     *)
(* pipelines (core/extractor.py) and expression mapping (core/mapper.py).  *)
(*                                                                         *)
(* Python strings whose characters matter (identifiers, expressions, keys) *)
(* are sequences of one-character strings.  Python values are tagged       *)
(* records: [t |-> "none"], [t |-> "num", ...], [t |-> "str", ...],        *)
(* [t |-> "dict", ...].                                                    *)
(***************************************************************************)
EXTENDS Integers, Sequences, FiniteSets, TLC

VARIABLES
  api_pc,        \* post_chat_completion: position in the call
  api_i,         \* loop index i of enumerate(timeouts), 0-based
  api_url,       \* url chosen from the provider override
  api_sent,      \* requests.post calls made so far: <<[timeout, url]>>
  api_outcomes,  \* what each requests.post / raise_for_status / json() did
  api_slept,     \* time.sleep(...) calls made so far
  api_result,    \* what the call returned or raised
  ctx_service,      \* ProcessingContext.{alpha,beta,gamma}_service
  ctx_speedtest,    \* ProcessingContext.{alpha,beta,gamma}_speedtest
  ctx_video,        \* ProcessingContext.{alpha,beta,gamma}_video
  ctx_voice_test,   \* ProcessingContext.voice_test
  ctx_logs,         \* ProcessingContext.logs
  ctx_extract_text, \* ProcessingContext.extract_text
  rs_pc,         \* resolve_expression harness: position
  rs_ident,      \* identifier of the expression
  rs_keys,       \* accessor keys of the expression
  rs_fmt,        \* how the accessors are written
  rs_istyle,     \* spelling of the identifier in the second expression
  rs_kstyle,     \* spelling of the keys in the second expression
  rs_e1,         \* expr passed to the first call
  rs_e2,         \* expr passed to the second call
  rs_r1,         \* value returned by the first call
  rs_r2,         \* value returned by the second call
  doc_disk,         \* the workbook file at xlsx_path (active sheet)
  doc_orig,         \* the workbook file as it was when the run started
  mp_pc,            \* map_to_excel: position
  mp_wb,            \* the workbook loaded by map_to_excel (active sheet)
  mp_pos,           \* the cell the scan is at
  cells_to_update,  \* staged (cell, resolved_val) pairs
  mp_resolved,      \* what resolve_expression returned for each scanned expression
  mp_saves,         \* successful wb.save calls
  ex_pc,         \* extraction pipeline: position
  ex_kind,       \* which pipeline runs
  ex_calls,      \* external calls made so far: "ocr", "vision", "reasoning"
  ex_text,       \* first-stage output (t1 for Service)
  ex_text2,      \* t2 of the Service pipeline
  ex_prompt,     \* the text handed to _reasoning_parse, as its parts
  ex_json,       \* json_str returned by post_reasoning_completion
  ex_result,     \* what the pipeline returned
  wf_pc,             \* process_workflow: position
  wf_book,           \* columns of the images anchored in the workbook, sorted by (row, col)
  wf_images,         \* images: stems of the saved paths
  wf_sector,         \* index of the sector the Service loop is at
  wf_i,              \* index of the image the routing loop is at
  wf_routed,         \* what the routing loop did with each image it has visited
  wf_service_called, \* sectors analyze_service_images was called for
  wf_exc,            \* exception that left process_workflow
  wf_return,         \* value process_workflow returned
  ord_pass,      \* mapping passes made over the document: which one runs
  ord_perm,      \* order in which the second pass meets the cells of the first
  ord_first,     \* the document the first pass saved
  cj_pc,         \* clean_json_response: position
  cj_content,    \* content passed to clean_json_response
  cj_result      \* text clean_json_response returned

api_vars == <<api_pc, api_i, api_url, api_sent, api_outcomes, api_slept, api_result>>

rs_vars == <<rs_pc, rs_ident, rs_keys, rs_fmt, rs_istyle, rs_kstyle, rs_e1, rs_e2, rs_r1, rs_r2>>
ctx_vars == <<ctx_service, ctx_speedtest, ctx_video, ctx_voice_test, ctx_logs, ctx_extract_text>>

mp_vars == <<doc_disk, doc_orig, mp_pc, mp_wb, mp_pos, cells_to_update, mp_resolved, mp_saves>>

ex_vars == <<ex_pc, ex_kind, ex_calls, ex_text, ex_text2, ex_prompt, ex_json, ex_result>>

wf_vars == <<wf_pc, wf_book, wf_images, wf_sector, wf_i, wf_routed, wf_service_called, wf_exc, wf_return>>

ord_vars == <<ord_pass, ord_perm, ord_first>>

cj_vars == <<cj_pc, cj_content, cj_result>>

vars == <<api_vars, ctx_vars, rs_vars, mp_vars, ex_vars, wf_vars, ord_vars, cj_vars>>

\* what each component's actions leave alone
not_api == <<ctx_vars, rs_vars, mp_vars, ex_vars, wf_vars, ord_vars, cj_vars>>
not_rs == <<api_vars, ctx_vars, mp_vars, ex_vars, wf_vars, ord_vars, cj_vars>>
not_mp == <<api_vars, rs_vars, ex_vars, wf_vars, ord_vars, cj_vars>>
not_ex == <<api_vars, rs_vars, mp_vars, wf_vars, ord_vars, cj_vars>>
not_wf == <<api_vars, rs_vars, ex_vars, ord_vars, cj_vars>>
not_ord == <<api_vars, rs_vars, ex_vars, wf_vars, cj_vars>>
not_cj == <<api_vars, ctx_vars, rs_vars, mp_vars, ex_vars, wf_vars, ord_vars>>

(***************************************************************************)
(* Python str, as sequences of one-character strings                       *)
(***************************************************************************)

UpperChars == <<"A","B","C","D","E","F","G","H","I","J","K","L","M","N","O","P","Q","R","S","T","U","V","W","X","Y","Z">>
LowerChars == <<"a","b","c","d","e","f","g","h","i","j","k","l","m","n","o","p","q","r","s","t","u","v","w","x","y","z">>
DigitChars == <<"0","1","2","3","4","5","6","7","8","9">>

UpperSet == {UpperChars[i] : i \in DOMAIN UpperChars}
LowerSet == {LowerChars[i] : i \in DOMAIN LowerChars}
DigitSet == {DigitChars[i] : i \in DOMAIN DigitChars}
LowerOf == [c \in UpperSet |-> LowerChars[CHOOSE i \in DOMAIN UpperChars : UpperChars[i] = c]]
UpperOf == [c \in LowerSet |-> UpperChars[CHOOSE i \in DOMAIN LowerChars : LowerChars[i] = c]]

IsUpper(c) == c \in UpperSet
IsLower(c) == c \in LowerSet
IsDigit(c) == c \in DigitSet
\* [0-9a-zA-Z]
IsAlnum(c) == IsUpper(c) \/ IsLower(c) \/ IsDigit(c)
\* \w
IsWordChar(c) == IsAlnum(c) \/ c = "_"
\* str.strip() whitespace
IsSpace(c) == c \in {" ", "\t", "\n"}
IsQuote(c) == c \in {"'", "\""}

SetMin(S) == CHOOSE x \in S : \A y \in S : x <= y
SetMax(S) == CHOOSE x \in S : \A y \in S : x >= y

\* str.lower() / str.upper() on one character
lower(c) == IF IsUpper(c) THEN LowerOf[c] ELSE c
upper(c) == IF IsLower(c) THEN UpperOf[c] ELSE c
Lower(s) == [i \in DOMAIN s |-> lower(s[i])]
Upper(s) == [i \in DOMAIN s |-> upper(s[i])]

\* str.strip()
strip(s) ==
  LET keep == {i \in DOMAIN s : ~IsSpace(s[i])}
  IN IF keep = {} THEN <<>> ELSE SubSeq(s, SetMin(keep), SetMax(keep))

\* str.startswith / str.endswith with a one-character argument
startswith(s, c) == Len(s) >= 1 /\ s[1] = c
endswith(s, c) == Len(s) >= 1 /\ s[Len(s)] = c

(***************************************************************************)
(* Python values                                                           *)
(*   None            [t |-> "none"]                                        *)
(*   float           [t |-> "num", neg, ip, fp]: sign, integer digits,     *)
(*                   fraction digits, as repr() prints them                *)
(*   str             [t |-> "str", s |-> characters]                       *)
(*   dict            [t |-> "dict", items |-> <<[k, v], ...>>], insertion  *)
(*                   order kept                                            *)
(***************************************************************************)

NoneV == [t |-> "none"]
Num(neg, ip, fp) == [t |-> "num", neg |-> neg, ip |-> ip, fp |-> fp]
Str(s) == [t |-> "str", s |-> s]
Dict(items) == [t |-> "dict", items |-> items]
is_none_only_when_missing(v) == FALSE

\* "resolved_val is not None" negated
IsNone(v) == v.t = "none"

\* ---- names of core/config.py as character sequences ----
S_alpha_service == <<"a","l","p","h","a","_","s","e","r","v","i","c","e">>
S_beta_service == <<"b","e","t","a","_","s","e","r","v","i","c","e">>
S_gamma_service == <<"g","a","m","m","a","_","s","e","r","v","i","c","e">>
S_alpha_speedtest == <<"a","l","p","h","a","_","s","p","e","e","d","t","e","s","t">>
S_beta_speedtest == <<"b","e","t","a","_","s","p","e","e","d","t","e","s","t">>
S_gamma_speedtest == <<"g","a","m","m","a","_","s","p","e","e","d","t","e","s","t">>
S_alpha_video == <<"a","l","p","h","a","_","v","i","d","e","o">>
S_beta_video == <<"b","e","t","a","_","v","i","d","e","o">>
S_gamma_video == <<"g","a","m","m","a","_","v","i","d","e","o">>
S_voice_test == <<"v","o","i","c","e","_","t","e","s","t">>
S_average == <<"a","v","e","r","a","g","e">>
S_nr_arfcn == <<"n","r","_","a","r","f","c","n">>
S_nr_band == <<"n","r","_","b","a","n","d">>
S_nr_pci == <<"n","r","_","p","c","i">>
S_nr_bw == <<"n","r","_","b","w">>
S_nr5g_rsrp == <<"n","r","5","g","_","r","s","r","p">>
S_nr5g_rsrq == <<"n","r","5","g","_","r","s","r","q">>
S_nr5g_sinr == <<"n","r","5","g","_","s","i","n","r">>
S_lte_band == <<"l","t","e","_","b","a","n","d">>
S_lte_earfcn == <<"l","t","e","_","e","a","r","f","c","n">>
S_lte_pci == <<"l","t","e","_","p","c","i">>
S_lte_bw == <<"l","t","e","_","b","w">>
S_lte_rsrp == <<"l","t","e","_","r","s","r","p">>
S_lte_rsrq == <<"l","t","e","_","r","s","r","q">>
S_lte_sinr == <<"l","t","e","_","s","i","n","r">>
S_download_mbps == <<"d","o","w","n","l","o","a","d","_","m","b","p","s">>
S_upload_mbps == <<"u","p","l","o","a","d","_","m","b","p","s">>
S_ping_ms == <<"p","i","n","g","_","m","s">>
S_jitter_ms == <<"j","i","t","t","e","r","_","m","s">>
S_max_resolution == <<"m","a","x","_","r","e","s","o","l","u","t","i","o","n">>
S_load_time_ms == <<"l","o","a","d","_","t","i","m","e","_","m","s">>
S_buffering_percentage == <<"b","u","f","f","e","r","i","n","g","_","p","e","r","c","e","n","t","a","g","e">>
S_phone_number == <<"p","h","o","n","e","_","n","u","m","b","e","r">>
S_call_duration_seconds == <<"c","a","l","l","_","d","u","r","a","t","i","o","n","_","s","e","c","o","n","d","s">>
S_call_status == <<"c","a","l","l","_","s","t","a","t","u","s">>
S_time == <<"t","i","m","e">>

\* ServiceData / SpeedTestData / VideoTestData / VoiceCallData field order
ServiceFields == <<S_nr_arfcn, S_nr_band, S_nr_pci, S_nr_bw, S_nr5g_rsrp, S_nr5g_rsrq, S_nr5g_sinr, S_lte_band, S_lte_earfcn, S_lte_pci, S_lte_bw, S_lte_rsrp, S_lte_rsrq, S_lte_sinr>>
SpeedFields == <<S_download_mbps, S_upload_mbps, S_ping_ms, S_jitter_ms>>
VideoFields == <<S_max_resolution, S_load_time_ms, S_buffering_percentage>>
VoiceFields == <<S_phone_number, S_call_duration_seconds, S_call_status, S_time>>
S_alpha == <<"a","l","p","h","a">>
S_beta == <<"b","e","t","a">>
S_gamma == <<"g","a","m","m","a">>
S_voicetest == <<"v","o","i","c","e","t","e","s","t">>
S_unknown == <<"u","n","k","n","o","w","n">>
S_image == <<"i","m","a","g","e">>
S_NULL == <<"N","U","L","L">>

(***************************************************************************)
(* core/config.py : ProcessingContext                                      *)
(***************************************************************************)

Sectors == <<"alpha", "beta", "gamma">>
SectorSet == {"alpha", "beta", "gamma"}

\* a pydantic model with every field at its default None
EmptyModel(fields) == [i \in DOMAIN fields |-> [k |-> fields[i], v |-> NoneV]]

\* ProcessingContext.__init__
CtxInit ==
  /\ ctx_service = [s \in SectorSet |-> EmptyModel(ServiceFields)]
  /\ ctx_speedtest = [s \in SectorSet |-> <<>>]
  /\ ctx_video = [s \in SectorSet |-> <<>>]
  /\ ctx_voice_test = <<>>
  /\ ctx_logs = <<>>
  /\ ctx_extract_text = <<>>

\* BaseModel.model_dump()
model_dump(m) == Dict(m)

\* {k: v.model_dump() for k, v in d.items()}
dump_items(d) == Dict([i \in DOMAIN d |-> [k |-> d[i].k, v |-> model_dump(d[i].v)]])

\* ProcessingContext.to_dict
to_dict ==
  Dict(<< [k |-> S_alpha_service, v |-> model_dump(ctx_service["alpha"])],
          [k |-> S_beta_service, v |-> model_dump(ctx_service["beta"])],
          [k |-> S_gamma_service, v |-> model_dump(ctx_service["gamma"])],
          [k |-> S_alpha_speedtest, v |-> dump_items(ctx_speedtest["alpha"])],
          [k |-> S_beta_speedtest, v |-> dump_items(ctx_speedtest["beta"])],
          [k |-> S_gamma_speedtest, v |-> dump_items(ctx_speedtest["gamma"])],
          [k |-> S_alpha_video, v |-> dump_items(ctx_video["alpha"])],
          [k |-> S_beta_video, v |-> dump_items(ctx_video["beta"])],
          [k |-> S_gamma_video, v |-> dump_items(ctx_video["gamma"])],
          [k |-> S_voice_test, v |-> dump_items(ctx_voice_test)],
          [k |-> S_average, v |-> Dict(<<>>)] >>)

(***************************************************************************)
(* core/mapper.py : Mapper._normalize_name, Mapper.resolve_expression      *)
(***************************************************************************)

normalize_name_case_sensitive(s) == SelectSeq(s, IsAlnum)

\* re.sub(r"[^0-9a-zA-Z]", "", s).lower()
normalize_name(s) == Lower(SelectSeq(s, IsAlnum))

match_identifier_letters_only(expr) ==
  IF Len(expr) = 0 \/ ~(IsUpper(expr[1]) \/ IsLower(expr[1])) THEN 0
  ELSE LET stops == {i \in DOMAIN expr : ~(IsUpper(expr[i]) \/ IsLower(expr[i]))}
       IN IF stops = {} THEN Len(expr) ELSE SetMin(stops) - 1

\* m = re.match(r"^([A-Za-z_]\w*)(.*)$", expr): the length of group 1, or 0
\* when there is no match
match_identifier(expr) ==
  IF Len(expr) = 0 \/ ~(IsUpper(expr[1]) \/ IsLower(expr[1]) \/ expr[1] = "_") THEN 0
  ELSE LET stops == {i \in DOMAIN expr : ~IsWordChar(expr[i])}
           n == IF stops = {} THEN Len(expr) ELSE SetMin(stops) - 1
       IN IF \E i \in (n + 1)..Len(expr) : expr[i] = "\n" THEN 0 ELSE n

\* re.findall(r"\[['\"]([^'\"]+)['\"]\]", rest), scanning from position i
RECURSIVE findall_keys(_, _)
findall_keys(rest, i) ==
  IF i > Len(rest) THEN <<>>
  ELSE IF rest[i] = "[" /\ i + 1 <= Len(rest) /\ IsQuote(rest[i + 1])
       THEN LET quotes == {j \in (i + 2)..Len(rest) : IsQuote(rest[j])}
                j == IF quotes = {} THEN Len(rest) + 1 ELSE SetMin(quotes)
            IN IF j > i + 2 /\ j + 1 <= Len(rest) /\ rest[j + 1] = "]"
               THEN <<SubSeq(rest, i + 2, j - 1)>> \o findall_keys(rest, j + 2)
               ELSE findall_keys(rest, i + 1)
       ELSE findall_keys(rest, i + 1)

\* norm_map = {normalize(k): k for k in data_map.keys()}; norm_map.get(n):
\* the last key with that normal form, as an index into items, 0 if none
norm_map_get(items, n) ==
  LET hits == {i \in DOMAIN items : normalize_name(items[i].k) = n}
  IN IF hits = {} THEN 0 ELSE SetMax(hits)

\* for real_k in current_obj.keys(): if normalize(real_k) == normalize(k):
\* found = real_k; break -- the first such key, as an index, 0 if none
first_match(items, k) ==
  LET hits == {i \in DOMAIN items : normalize_name(items[i].k) = normalize_name(k)}
  IN IF hits = {} THEN 0 ELSE SetMin(hits)

\* the loop "for k in keys" from position i
RECURSIVE walk_keys(_, _, _)
walk_keys(current_obj, keys, i) ==
  IF i > Len(keys) THEN current_obj
  ELSE IF current_obj.t = "dict"
       THEN LET found == first_match(current_obj.items, keys[i])
            IN IF found # 0 /\ current_obj.items[found].k # <<>>
               THEN walk_keys(current_obj.items[found].v, keys, i + 1)
               ELSE NoneV
       ELSE NoneV

\* Mapper.resolve_expression; Python None is NoneV
resolve_expression(expr0) ==
  LET data_map == to_dict
      expr == strip(expr0)
      n == match_identifier(expr)
  IN IF n = 0 THEN NoneV
     ELSE LET base_raw == SubSeq(expr, 1, n)
              rest == SubSeq(expr, n + 1, Len(expr))
              base == norm_map_get(data_map.items, normalize_name(base_raw))
          IN IF base = 0 \/ data_map.items[base].k = <<>> THEN NoneV
             ELSE walk_keys(data_map.items[base].v, findall_keys(rest, 1), 1)



(***************************************************************************)
(* core/api_manager.py : APIManager.post_chat_completion                   *)
(***************************************************************************)

\* timeouts = [60, 120]
timeouts == <<60, 120>>

\* time.sleep(2) before the retry
BackoffSeconds == 2

\* HTTP statuses for which response.raise_for_status() raises HTTPError
StatusCodes == {400, 404, 408, 429, 499, 500, 503, 599}

\* What one requests.post(...) + raise_for_status() + response.json() can do.
\*   ok         : 2xx/3xx with a JSON body, response.json() is returned
\*   http       : raise_for_status() raises HTTPError with the status
\*   timeout    : requests.exceptions.Timeout
\*   connection : requests.exceptions.ConnectionError
\*   other      : any other exception (e.g. a body that is not JSON)
Outcomes ==
  {[kind |-> "ok", status |-> 200]}
  \cup {[kind |-> "http", status |-> s] : s \in StatusCodes}
  \cup {[kind |-> k, status |-> 0] : k \in {"timeout", "connection", "other"}}

\* provider override of url (headers follow the same branch)
Providers == {"default", "override"}

UrlFor(provider) ==
  IF provider = "override" THEN "provider.base_url/chat/completions"
  ELSE "API_BASE/chat/completions"

IsClientErrorNoRetryMutant(status) == 400 <= status /\ status < 429

\* if 400 <= e.response.status_code < 500 and e.response.status_code != 429
IsClientError(status) == 400 <= status /\ status < 500 /\ status # 429

HasNextAttemptMutant(i) == i < Len(timeouts)

\* if i < len(timeouts) - 1
HasNextAttempt(i) == i < Len(timeouts) - 1

ApiInit ==
  /\ api_pc = "idle"
  /\ api_i = 0
  /\ api_url = ""
  /\ api_sent = <<>>
  /\ api_outcomes = <<>>
  /\ api_slept = <<>>
  /\ api_result = [t |-> "pending", attempt |-> 0, kind |-> "", status |-> 0]

\* entry of post_chat_completion: pick url/headers, enter the loop
ApiCall ==
  /\ UNCHANGED not_api
  /\ api_pc = "idle"
  /\ \E provider \in Providers : api_url' = UrlFor(provider)
  /\ api_i' = 0
  /\ api_pc' = "post"
  /\ UNCHANGED <<api_sent, api_outcomes, api_slept, api_result>>

\* response = requests.post(url, ..., timeout=timeout); raise_for_status(); json()
\* (when the loop is exhausted: return None)
ApiPost ==
  /\ UNCHANGED not_api
  /\ api_pc = "post"
  /\ IF api_i < Len(timeouts)
     THEN /\ api_sent' = Append(api_sent, [timeout |-> timeouts[api_i + 1], url |-> api_url])
          /\ \E o \in Outcomes : api_outcomes' = Append(api_outcomes, o)
          /\ api_pc' = "handle"
          /\ UNCHANGED api_result
     ELSE /\ api_result' = [t |-> "returned", attempt |-> 0, kind |-> "none", status |-> 0]
          /\ api_pc' = "returned"
          /\ UNCHANGED <<api_sent, api_outcomes>>
  /\ UNCHANGED <<api_i, api_url, api_slept>>

\* the return / except clauses of one loop iteration
ApiHandle ==
  /\ UNCHANGED not_api
  /\ api_pc = "handle"
  /\ LET o == api_outcomes[Len(api_outcomes)]
         raised == [t |-> "raised", attempt |-> api_i + 1, kind |-> o.kind, status |-> o.status]
         retry == /\ api_slept' = Append(api_slept, BackoffSeconds)
                  /\ api_i' = api_i + 1
                  /\ api_pc' = "post"
                  /\ UNCHANGED api_result
         fail == /\ api_result' = raised
                 /\ api_pc' = "raised"
                 /\ UNCHANGED <<api_i, api_slept>>
     IN CASE o.kind = "ok" ->
               /\ api_result' = [t |-> "returned", attempt |-> api_i + 1, kind |-> "ok", status |-> o.status]
               /\ api_pc' = "returned"
               /\ UNCHANGED <<api_i, api_slept>>
          [] o.kind = "http" ->
               IF IsClientError(o.status) THEN fail
               ELSE IF HasNextAttempt(api_i) THEN retry ELSE fail
          [] o.kind \in {"timeout", "connection"} ->
               IF HasNextAttempt(api_i) THEN retry ELSE fail
          [] OTHER -> fail
  /\ UNCHANGED <<api_url, api_sent, api_outcomes>>

\* the caller makes another call with a fresh frame
ApiReset ==
  /\ UNCHANGED not_api
  /\ api_pc \in {"returned", "raised"}
  /\ api_pc' = "idle"
  /\ api_i' = 0
  /\ api_url' = ""
  /\ api_sent' = <<>>
  /\ api_outcomes' = <<>>
  /\ api_slept' = <<>>
  /\ api_result' = [t |-> "pending", attempt |-> 0, kind |-> "", status |-> 0]

(***************************************************************************)
(* resolve_expression applied to bounded inputs                            *)
(***************************************************************************)

\* longest accessor chain of a generated expression
MaxAccessors == 2

S_beta_image_3 == <<"b","e","t","a","_","i","m","a","g","e","_","3">>
S_gamma_image_8 == <<"g","a","m","m","a","_","i","m","a","g","e","_","8">>
S_missing == <<"m","i","s","s","i","n","g">>
S_delta_service == <<"d","e","l","t","a","_","s","e","r","v","i","c","e">>
S_1080p == <<"1","0","8","0","p">>

\* -85.0 and 363.5
NumMinus85 == Num(TRUE, <<"8","5">>, <<"0">>)
Num363_5 == Num(FALSE, <<"3","6","3">>, <<"5">>)

\* a model with the given fields set, the others None
ModelWith(fields, set) ==
  [i \in DOMAIN fields |->
     [k |-> fields[i],
      v |-> IF \E j \in DOMAIN set : set[j].k = fields[i]
            THEN set[CHOOSE j \in DOMAIN set : set[j].k = fields[i]].v
            ELSE NoneV]]

\* Run Contexts a run can end with: each record absent or partly filled
CtxSamples ==
  {[service |-> [s \in SectorSet |-> IF s = "alpha" /\ a THEN ModelWith(ServiceFields, <<[k |-> S_nr5g_rsrp, v |-> NumMinus85]>>)
                                     ELSE EmptyModel(ServiceFields)],
    speedtest |-> [s \in SectorSet |-> IF s = "beta" /\ b
                                       THEN <<[k |-> S_beta_image_3, v |-> ModelWith(SpeedFields, <<[k |-> S_download_mbps, v |-> Num363_5]>>)]>>
                                       ELSE <<>>],
    video |-> [s \in SectorSet |-> IF s = "gamma" /\ b
                                   THEN <<[k |-> S_gamma_image_8, v |-> ModelWith(VideoFields, <<[k |-> S_max_resolution, v |-> Str(S_1080p)]>>)]>>
                                   ELSE <<>>],
    voice_test |-> <<>>] : a \in BOOLEAN, b \in BOOLEAN}

CtxIs(c) ==
  /\ ctx_service = c.service
  /\ ctx_speedtest = c.speedtest
  /\ ctx_video = c.video
  /\ ctx_voice_test = c.voice_test
  /\ ctx_logs = <<>>
  /\ ctx_extract_text = <<>>

Idents == {S_alpha_service, S_beta_speedtest, S_gamma_video, S_delta_service}
KeyPool == {S_nr5g_rsrp, S_beta_image_3, S_download_mbps, S_missing}
KeyChains == UNION {[1..n -> KeyPool] : n \in 0..MaxAccessors}

\* spellings of one name: the same letters and digits, other case and punctuation
RECURSIVE Repunct(_, _)
Repunct(s, p) ==
  IF s = <<>> THEN <<>>
  ELSE (IF s[1] = "_" THEN p ELSE <<s[1]>>) \o Repunct(Tail(s), p)

RECURSIVE Capitalize(_, _)
Capitalize(s, start) ==
  IF s = <<>> THEN <<>>
  ELSE <<IF start THEN upper(s[1]) ELSE s[1]>> \o Capitalize(Tail(s), ~IsAlnum(s[1]))

\* how the second expression respells the identifier and the keys
KeyStyles == {"same", "upper", "spaced", "dashed", "other"}
IdentStyles == {"same", "upper", "doubled", "other"}
Respellings == {<<"same", "same">>, <<"upper", "upper">>, <<"doubled", "spaced">>,
                <<"same", "dashed">>, <<"same", "other">>, <<"other", "same">>}

Respell(s, style) ==
  CASE style = "same" -> s
    [] style = "upper" -> Upper(s)
    [] style = "spaced" -> Capitalize(Repunct(s, <<" ">>), TRUE)
    [] style = "dashed" -> Upper(Repunct(s, <<"-">>))
    [] style = "doubled" -> Repunct(s, <<"_", "_">>)
    [] OTHER -> s \o <<"x">>

\* the bracket forms <identifier>['key']..., <identifier>["key"]... and the
\* first one with blanks around it
BracketFormats == {"sq", "dq", "padded"}

\* ways an expression can be written: the bracket forms, dotted names,
\* accessors with other text between them, accessors on lines of their own
ExprFormats == BracketFormats \cup {"dot", "noise", "multiline"}

RECURSIVE FormatKeys(_, _)
FormatKeys(keys, fmt) ==
  IF keys = <<>> THEN <<>>
  ELSE (CASE fmt = "dq" -> <<"[", "\"">> \o keys[1] \o <<"\"", "]">>
          [] fmt = "dot" -> <<".">> \o keys[1]
          [] fmt = "noise" -> <<" ", "[", "0", "]", "[", "'">> \o keys[1] \o <<"'", "]", "?">>
          [] fmt = "multiline" -> <<"\n", "[", "'">> \o keys[1] \o <<"'", "]">>
          [] OTHER -> <<"[", "'">> \o keys[1] \o <<"'", "]">>)
       \o FormatKeys(Tail(keys), fmt)

\* the text of the expression <ident><accessors>
FormatExpr(ident, keys, fmt) ==
  IF fmt = "padded" THEN <<" ">> \o ident \o FormatKeys(keys, fmt) \o <<" ", " ">>
  ELSE ident \o FormatKeys(keys, fmt)

ResolveInit ==
  /\ rs_pc = "ready"
  /\ rs_ident \in Idents
  /\ rs_keys \in KeyChains
  /\ rs_fmt \in ExprFormats
  /\ \E r \in Respellings : rs_istyle = r[1] /\ rs_kstyle = r[2]
  /\ rs_e1 = <<>>
  /\ rs_e2 = <<>>
  /\ rs_r1 = NoneV
  /\ rs_r2 = NoneV

\* write the expression in two spellings
ResolveFormat ==
  /\ rs_pc = "ready"
  /\ rs_e1' = FormatExpr(rs_ident, rs_keys, rs_fmt)
  /\ rs_e2' = FormatExpr(Respell(rs_ident, rs_istyle),
                         [i \in DOMAIN rs_keys |-> Respell(rs_keys[i], rs_kstyle)], rs_fmt)
  /\ rs_pc' = "formatted"
  /\ UNCHANGED <<rs_ident, rs_keys, rs_fmt, rs_istyle, rs_kstyle, rs_r1, rs_r2>>
  /\ UNCHANGED not_rs

\* resolve_expression(e1); resolve_expression(e2)
ResolveCall ==
  /\ rs_pc = "formatted"
  /\ rs_r1' = resolve_expression(rs_e1)
  /\ rs_r2' = resolve_expression(rs_e2)
  /\ rs_pc' = "done"
  /\ UNCHANGED <<rs_ident, rs_keys, rs_fmt, rs_istyle, rs_kstyle, rs_e1, rs_e2>>
  /\ UNCHANGED not_rs

\* the harness is not in use
ResolveIdle ==
  /\ rs_pc = "idle"
  /\ rs_ident = <<>>
  /\ rs_keys = <<>>
  /\ rs_fmt = ""
  /\ rs_istyle = ""
  /\ rs_kstyle = ""
  /\ rs_e1 = <<>>
  /\ rs_e2 = <<>>
  /\ rs_r1 = NoneV
  /\ rs_r2 = NoneV


(***************************************************************************)
(* core/mapper.py : Mapper.map_to_excel                                    *)
(*                                                                         *)
(* The active sheet is a sequence of cells in iter_rows order, each        *)
(* [value, bold, rgb, col]: cell.value, cell.font.bold, cell.font.color.rgb *)
(* (<<>> when the font has no colour) and the cell's column index.         *)
(***************************************************************************)

\* iter_rows(..., min_col=1, max_col=16)
max_col == 16

S_FF0000 == <<"F","F","0","0","0","0">>

\* str(col.rgb).upper()[-6:]
last6_upper(rgb) == LET u == Upper(rgb) IN IF Len(u) <= 6 THEN u ELSE SubSeq(u, Len(u) - 5, Len(u))

\* the three "continue" tests of the scan loop: a non-empty str value, a
\* bold font, a colour whose last six hex digits are FF0000
is_marked(cell) ==
  /\ cell.value.t = "str" /\ cell.value.s # <<>>
  /\ cell.bold
  /\ cell.rgb # <<>> /\ last6_upper(cell.rgb) = S_FF0000

\* expr = val.strip(); one layer of surrounding quotes removed
clean_expr(val) ==
  LET expr == strip(val)
  IN IF (startswith(expr, "\"") /\ endswith(expr, "\"")) \/ (startswith(expr, "'") /\ endswith(expr, "'"))
     THEN strip(SubSeq(expr, 2, Len(expr) - 1))
     ELSE expr

\* float.__repr__ as json.dumps prints it
float_repr(v) == (IF v.neg THEN <<"-">> ELSE <<>>) \o v.ip \o <<".">> \o v.fp

\* the escapes json.dumps applies inside a string (ASCII text)
RECURSIVE json_escape(_)
json_escape(t) ==
  IF t = <<>> THEN <<>>
  ELSE (CASE t[1] = "\"" -> <<"\\", "\"">>
          [] t[1] = "\\" -> <<"\\", "\\">>
          [] t[1] = "\n" -> <<"\\", "n">>
          [] t[1] = "\t" -> <<"\\", "t">>
          [] OTHER -> <<t[1]>>) \o json_escape(Tail(t))

\* json.dumps(val) with the default separators
RECURSIVE json_dumps(_)
RECURSIVE json_dumps_items(_, _)
json_dumps_items(items, i) ==
  IF i > Len(items) THEN <<>>
  ELSE (IF i > 1 THEN <<",", " ">> ELSE <<>>)
       \o <<"\"">> \o json_escape(items[i].k) \o <<"\"", ":", " ">> \o json_dumps(items[i].v)
       \o json_dumps_items(items, i + 1)
json_dumps(v) ==
  CASE v.t = "none" -> <<"n","u","l","l">>
    [] v.t = "num" -> float_repr(v)
    [] v.t = "int" -> (IF v.neg THEN <<"-">> ELSE <<>>) \o v.ip
    [] v.t = "str" -> <<"\"">> \o json_escape(v.s) \o <<"\"">>
    [] OTHER -> <<"{">> \o json_dumps_items(v.items, 1) \o <<"}">>

written_value_raw(val) == val

\* if isinstance(val, (dict, list)): cell.value = json.dumps(val) else: cell.value = val
written_value(val) == IF val.t = "dict" THEN Str(json_dumps(val)) ELSE val

\* the cells iter_rows yields: those in columns 1..max_col, in order
scan_range(sheet) == {i \in DOMAIN sheet : sheet[i].col <= max_col}

next_in_range(sheet, from) ==
  LET later == {i \in scan_range(sheet) : i >= from}
  IN IF later = {} THEN Len(sheet) + 1 ELSE SetMin(later)

MapperIdle ==
  /\ mp_pc = "idle"
  /\ mp_wb = <<>>
  /\ mp_pos = 0
  /\ cells_to_update = <<>>
  /\ mp_resolved = <<>>
  /\ mp_saves = 0

\* self.context.log(...); wb = openpyxl.load_workbook(xlsx_path); sheet = wb.active
\* (load_workbook raising is caught by the except clause of map_to_excel)
MapLoad ==
  /\ UNCHANGED not_mp
  /\ mp_pc = "load"
  /\ \E ok \in BOOLEAN :
       IF ok
       THEN /\ mp_wb' = doc_disk
            /\ mp_pos' = next_in_range(doc_disk, 1)
            /\ mp_pc' = "scan"
            /\ ctx_logs' = Append(ctx_logs, "[MAPPER] Scanning workbook")
       ELSE /\ mp_pc' = "done"
            /\ ctx_logs' = ctx_logs \o <<"[MAPPER] Scanning workbook", "[ERROR] Mapping failed">>
            /\ UNCHANGED <<mp_wb, mp_pos>>
  /\ cells_to_update' = <<>>
  /\ UNCHANGED <<doc_disk, doc_orig, mp_resolved, mp_saves>>
  /\ UNCHANGED <<ctx_service, ctx_speedtest, ctx_video, ctx_voice_test, ctx_extract_text>>

\* one iteration of "for cell in row" (or the end of the scan)
MapScanCell ==
  /\ UNCHANGED not_mp
  /\ mp_pc = "scan"
  /\ IF mp_pos > Len(mp_wb)
     THEN /\ mp_pc' = "apply"
          /\ UNCHANGED <<mp_wb, mp_pos, cells_to_update, mp_resolved, ctx_extract_text>>
     ELSE LET cell == mp_wb[mp_pos]
          IN /\ mp_pos' = next_in_range(mp_wb, mp_pos + 1)
             /\ mp_pc' = "scan"
             /\ IF ~is_marked(cell)
                THEN UNCHANGED <<mp_wb, cells_to_update, mp_resolved, ctx_extract_text>>
                ELSE LET expr == clean_expr(cell.value.s)
                         resolved_val == resolve_expression(expr)
                     IN /\ ctx_extract_text' = Append(ctx_extract_text, expr)
                        /\ mp_resolved' = Append(mp_resolved, [cell |-> mp_pos, expr |-> expr, val |-> resolved_val])
                        /\ IF ~IsNone(resolved_val)
                           THEN /\ cells_to_update' = Append(cells_to_update, [cell |-> mp_pos, val |-> resolved_val])
                                /\ UNCHANGED mp_wb
                           ELSE /\ mp_wb' = [mp_wb EXCEPT ![mp_pos].value = Str(S_NULL)]
                                /\ UNCHANGED cells_to_update
  /\ UNCHANGED <<doc_disk, doc_orig, mp_saves>>
  /\ UNCHANGED <<ctx_service, ctx_speedtest, ctx_video, ctx_voice_test, ctx_logs>>

apply_first_update_only(sheet, updates, i) ==
  IF updates = <<>> THEN sheet
  ELSE [sheet EXCEPT ![updates[1].cell].value = written_value(updates[1].val)]

\* for cell, val in cells_to_update: cell.value = ...
RECURSIVE apply_updates(_, _, _)
apply_updates(sheet, updates, i) ==
  IF i > Len(updates) THEN sheet
  ELSE apply_updates([sheet EXCEPT ![updates[i].cell].value = written_value(updates[i].val)], updates, i + 1)

MapApply ==
  /\ UNCHANGED not_mp
  /\ mp_pc = "apply"
  /\ mp_wb' = apply_updates(mp_wb, cells_to_update, 1)
  /\ mp_pc' = "save"
  /\ UNCHANGED <<doc_disk, doc_orig, mp_pos, cells_to_update, mp_resolved, mp_saves>>
  /\ UNCHANGED ctx_vars

\* wb.save(xlsx_path); log -- or the except clause when save raises
MapSave ==
  /\ UNCHANGED not_mp
  /\ mp_pc = "save"
  /\ \E ok \in BOOLEAN :
       IF ok
       THEN /\ doc_disk' = mp_wb
            /\ mp_saves' = mp_saves + 1
            /\ ctx_logs' = Append(ctx_logs, "[MAPPER] Workbook updated")
       ELSE /\ ctx_logs' = Append(ctx_logs, "[ERROR] Mapping failed")
            /\ UNCHANGED <<doc_disk, mp_saves>>
  /\ mp_pc' = "done"
  /\ UNCHANGED <<doc_orig, mp_wb, mp_pos, cells_to_update, mp_resolved>>
  /\ UNCHANGED <<ctx_service, ctx_speedtest, ctx_video, ctx_voice_test, ctx_extract_text>>

(***************************************************************************)
(* map_to_excel applied to bounded documents                               *)
(***************************************************************************)

\* longest sheet (in cells)
MaxCells == 2

S_FFFF0000 == <<"F","F","F","F","0","0","0","0">>
S_ffff0000 == <<"f","f","f","f","0","0","0","0">>
S_00FF0000 == <<"0","0","F","F","0","0","0","0">>
S_FF00FF00 == <<"F","F","0","0","F","F","0","0">>
Expr_rsrp == <<"a","l","p","h","a","_","s","e","r","v","i","c","e","[","'","n","r","5","g","_","r","s","r","p","'","]">>
Expr_quoted_average == <<" ","\"","a","v","e","r","a","g","e","\""," ">>
Expr_speed == <<"B","e","t","a","_","S","p","e","e","d","T","e","s","t","[","\"","b","e","t","a","_","i","m","a","g","e","_","3","\"","]","[","'","D","o","w","n","l","o","a","d"," ","M","b","p","s","'","]">>
Expr_video == <<"g","a","m","m","a","_","v","i","d","e","o","[","'","g","a","m","m","a","_","i","m","a","g","e","_","8","'","]","[","'","m","a","x","_","r","e","s","o","l","u","t","i","o","n","'","]">>
Expr_alpha == <<"'","a","l","p","h","a","_","s","e","r","v","i","c","e","'">>
Expr_delta == <<"d","e","l","t","a","_","s","e","r","v","i","c","e","[","'","n","r","5","g","_","r","s","r","p","'","]">>

\* cells a template can hold
CellSamples ==
  { [value |-> Str(Expr_rsrp), bold |-> TRUE, rgb |-> S_FFFF0000, col |-> 1],
    [value |-> Str(Expr_quoted_average), bold |-> TRUE, rgb |-> S_00FF0000, col |-> 2],
    [value |-> Str(Expr_speed), bold |-> TRUE, rgb |-> S_ffff0000, col |-> 16],
    [value |-> Str(Expr_video), bold |-> TRUE, rgb |-> S_FFFF0000, col |-> 3],
    [value |-> Str(Expr_alpha), bold |-> TRUE, rgb |-> S_FFFF0000, col |-> 4],
    [value |-> Str(S_NULL), bold |-> TRUE, rgb |-> S_FFFF0000, col |-> 5],
    [value |-> Str(Expr_delta), bold |-> TRUE, rgb |-> S_FFFF0000, col |-> 6],
    [value |-> Str(Expr_rsrp), bold |-> TRUE, rgb |-> S_FFFF0000, col |-> 17],
    [value |-> Str(Expr_rsrp), bold |-> FALSE, rgb |-> S_FFFF0000, col |-> 1],
    [value |-> Str(Expr_rsrp), bold |-> TRUE, rgb |-> S_FF00FF00, col |-> 1],
    [value |-> Str(Expr_rsrp), bold |-> TRUE, rgb |-> <<>>, col |-> 1],
    [value |-> NumMinus85, bold |-> TRUE, rgb |-> S_FFFF0000, col |-> 1] }

Sheets == UNION {[1..n -> CellSamples] : n \in 1..MaxCells}

\* map_to_excel(xlsx_path) is called on a document
MapperInit ==
  /\ doc_disk \in Sheets
  /\ doc_orig = doc_disk
  /\ mp_pc = "load"
  /\ mp_wb = <<>>
  /\ mp_pos = 0
  /\ cells_to_update = <<>>
  /\ mp_resolved = <<>>
  /\ mp_saves = 0


(***************************************************************************)
(* core/extractor.py : Extractor                                           *)
(*                                                                         *)
(* A JSON int is [t |-> "int", neg, ip].  The text a model returns is      *)
(* represented by what json.loads makes of it: "malformed", or the list of *)
(* key/value pairs of the object it holds.                                 *)
(***************************************************************************)

IntV(neg, ip) == [t |-> "int", neg |-> neg, ip |-> ip]

\* digits with leading zeros removed (one digit always kept)
RECURSIVE strip_leading_zeros(_)
strip_leading_zeros(d) ==
  IF Len(d) > 1 /\ d[1] = "0" THEN strip_leading_zeros(Tail(d)) ELSE IF d = <<>> THEN <<"0">> ELSE d

\* digits with trailing zeros removed (one digit always kept)
RECURSIVE strip_trailing_zeros(_)
strip_trailing_zeros(d) ==
  IF Len(d) > 1 /\ d[Len(d)] = "0" THEN strip_trailing_zeros(SubSeq(d, 1, Len(d) - 1))
  ELSE IF d = <<>> THEN <<"0">> ELSE d

\* float(text) for text matching -?\d+\.?\d*
float_of(neg, ip, fp) == Num(neg, strip_leading_zeros(ip), strip_trailing_zeros(fp))

\* str.strip("'\"")
strip_quotes(s) ==
  LET keep == {i \in DOMAIN s : ~IsQuote(s[i])}
  IN IF keep = {} THEN <<>> ELSE SubSeq(s, SetMin(keep), SetMax(keep))

\* the run of digits of s starting at position i
RECURSIVE digits_from(_, _)
digits_from(s, i) ==
  IF i <= Len(s) /\ IsDigit(s[i]) THEN <<s[i]>> \o digits_from(s, i + 1) ELSE <<>>

\* re.search(r'(-?\d+\.?\d*)', s) then float(match.group(1))
search_number(s) ==
  LET starts == {i \in DOMAIN s : \/ IsDigit(s[i])
                                  \/ (s[i] = "-" /\ i + 1 <= Len(s) /\ IsDigit(s[i + 1]))}
  IN IF starts = {} THEN NoneV
     ELSE LET i == SetMin(starts)
              neg == s[i] = "-"
              d0 == IF neg THEN i + 1 ELSE i
              ip == digits_from(s, d0)
              dot == d0 + Len(ip)
              fp == IF dot <= Len(s) /\ s[dot] = "." THEN digits_from(s, dot + 1) ELSE <<>>
          IN float_of(neg, ip, fp)

clean_number_zero_fill(value) ==
  CASE value.t = "none" -> NoneV
    [] value.t \in {"int", "num"} -> value
    [] OTHER -> LET r == search_number(strip_quotes(strip(value.s)))
                IN IF r = NoneV THEN Num(FALSE, <<"0">>, <<"0">>) ELSE r

\* Extractor._clean_number
clean_number(value) ==
  CASE value.t = "none" -> NoneV
    [] value.t \in {"int", "num"} -> value
    [] OTHER -> search_number(strip_quotes(strip(value.s)))

\* keys _reasoning_parse leaves uncleaned
StringKeys == {S_max_resolution, S_call_status, S_phone_number, S_time}

\* pydantic validation of one value for an Optional[float] field:
\* <<ok, value stored>>
validate_float(v) ==
  CASE v.t = "none" -> <<TRUE, NoneV>>
    [] v.t = "num" -> <<TRUE, v>>
    [] v.t = "int" -> <<TRUE, Num(v.neg, v.ip, <<"0">>)>>
    [] OTHER ->
         \* a str is accepted only when the whole of it spells a number
         LET s == strip(v.s)
             neg == Len(s) >= 1 /\ s[1] = "-"
             d0 == IF neg THEN 2 ELSE 1
             ip == digits_from(s, d0)
             dot == d0 + Len(ip)
             fp == IF dot <= Len(s) /\ s[dot] = "." THEN digits_from(s, dot + 1) ELSE <<>>
             end == IF dot <= Len(s) /\ s[dot] = "." THEN dot + 1 + Len(fp) ELSE dot
         IN IF ip # <<>> /\ end = Len(s) + 1 /\ (dot > Len(s) \/ fp # <<>>)
            THEN <<TRUE, float_of(neg, ip, fp)>>
            ELSE <<FALSE, NoneV>>

\* pydantic validation of one value for an Optional[str] field
validate_str(v) ==
  IF v.t \in {"none", "str"} THEN <<TRUE, v>> ELSE <<FALSE, NoneV>>

HasKey(data, k) == \E i \in DOMAIN data : data[i].k = k
\* data[k]: a repeated key keeps its last value
GetKey(data, k) == data[SetMax({i \in DOMAIN data : data[i].k = k})].v

\* schema_cls(**data): [ok |-> validation passed, model |-> the instance];
\* a missing field takes its default None, an extra key is ignored
schema_cls(fields, data) ==
  LET checked == [i \in DOMAIN fields |->
                    IF ~HasKey(data, fields[i]) THEN <<TRUE, NoneV>>
                    ELSE IF fields[i] \in StringKeys THEN validate_str(GetKey(data, fields[i]))
                    ELSE validate_float(GetKey(data, fields[i]))]
  IN [ok |-> \A i \in DOMAIN fields : checked[i][1],
      model |-> [i \in DOMAIN fields |-> [k |-> fields[i], v |-> checked[i][2]]]]

\* for key, value in data.items(): if key not in [...]: data[key] = self._clean_number(value)
clean_data(data) ==
  [i \in DOMAIN data |->
     IF data[i].k \in StringKeys THEN data[i] ELSE [k |-> data[i].k, v |-> clean_number(data[i].v)]]

Kinds == {"service", "speed", "video", "voice"}
SingleImageKinds == {"speed", "video", "voice"}

FieldsOf(kind) ==
  CASE kind = "service" -> ServiceFields
    [] kind = "speed" -> SpeedFields
    [] kind = "video" -> VideoFields
    [] OTHER -> VoiceFields

\* clean_numbers argument each pipeline passes to _reasoning_parse
CleanNumbersOf(kind) == kind # "service"

\* the first stage of each pipeline: _paddle_ocr or _vision_extract
FirstStageOf(kind) == IF kind = "voice" THEN "vision" ELSE "ocr"

\* What the first stage can return.  None (a failure, logged), or a text;
\* `fast` says what a local parse of that text would give: it is no JSON
\* ("unparsable"), a record with a null field ("partial"), a record with no
\* null field ("complete").  _vision_extract can also return "" ("empty").
NoText == [t |-> "none", fast |-> ""]
\* _vision_extract got a response without "choices": None, nothing logged
NoChoices == [t |-> "none", fast |-> "no choices"]
FirstStageResults(stage) ==
  {NoText} \cup {[t |-> "text", fast |-> f] : f \in {"unparsable", "partial", "complete"}}
  \cup (IF stage = "vision" THEN {[t |-> "text", fast |-> "empty"], NoChoices} ELSE {})

skip_when_complete_or_empty(text) == text.t = "none" \/ text.fast \in {"empty", "complete"}

\* "if not text"
not_text(text) == text.t = "none" \/ text.fast = "empty"

\* no json_str: post_reasoning_completion was not called or returned None
NoJson == [t |-> "none", data |-> <<>>, raw |-> <<>>]

ExtractIdle ==
  /\ ex_pc = "idle"
  /\ ex_kind = ""
  /\ ex_calls = <<>>
  /\ ex_text = NoText
  /\ ex_text2 = NoText
  /\ ex_prompt = <<>>
  /\ ex_json = NoJson
  /\ ex_result = [t |-> "pending", model |-> <<>>]

\* analyze_service_images / analyze_speed_test / analyze_video_test /
\* analyze_voice_call is entered
ExtractInit ==
  /\ ex_pc = "first"
  /\ ex_kind \in Kinds
  /\ ex_calls = <<>>
  /\ ex_text = NoText
  /\ ex_text2 = NoText
  /\ ex_prompt = <<>>
  /\ ex_json = NoJson
  /\ ex_result = [t |-> "pending", model |-> <<>>]

Absent == [t |-> "absent", model |-> <<>>]

service_any_text_missing(t1, t2) == not_text(t1) \/ not_text(t2)

\* "if not t1 and not t2"
service_no_text(t1, t2) == not_text(t1) /\ not_text(t2)

\* fixed pieces of the text analyze_service_images builds
Header(label) == [t |-> "header", fast |-> label]
Placeholder == [t |-> "literal", fast |-> "empty"]

\* f"IMAGE 1:\n{t1 or 'empty'}\n\nIMAGE 2:\n{t2 or 'empty'}", as its parts
combined(t1, t2) ==
  <<Header("IMAGE 1:"), IF not_text(t1) THEN Placeholder ELSE t1,
    Header("IMAGE 2:"), IF not_text(t2) THEN Placeholder ELSE t2>>

\* the header log line and the first stage: _paddle_ocr on the image (on
\* both images for Service) or _vision_extract, then the "if not text" test
ExFirstStage ==
  /\ UNCHANGED not_ex
  /\ ex_pc = "first"
  /\ LET stage == FirstStageOf(ex_kind)
     IN \E r1 \in FirstStageResults(stage), r2 \in FirstStageResults(stage) :
          /\ ex_kind # "service" => r2 = NoText
          /\ ex_text' = r1
          /\ ex_text2' = r2
          /\ ex_calls' = IF ex_kind = "service" THEN <<stage, stage>> ELSE <<stage>>
          /\ LET none == IF ex_kind = "service" THEN service_no_text(r1, r2) ELSE not_text(r1)
             IN IF none
                THEN /\ ex_result' = Absent
                     /\ ex_pc' = "done"
                     /\ ctx_logs' = ctx_logs \o <<"--- PIPELINE ---">>
                                     \o (IF r1 = NoChoices THEN <<>> ELSE <<"[FIRST STAGE] no text">>)
                     /\ UNCHANGED ex_prompt
                ELSE /\ ex_pc' = "reason"
                     /\ ex_prompt' = IF ex_kind = "service" THEN combined(r1, r2) ELSE <<r1>>
                     /\ ctx_logs' = ctx_logs \o <<"--- PIPELINE ---", "[FIRST STAGE] got text">>
                     /\ UNCHANGED ex_result
  /\ UNCHANGED <<ex_kind, ex_json>>
  /\ UNCHANGED <<ctx_service, ctx_speedtest, ctx_video, ctx_voice_test, ctx_extract_text>>


\* d[k] = v on a dict kept as a list of items
dict_put(items, k, v) ==
  IF \E i \in DOMAIN items : items[i].k = k
  THEN [i \in DOMAIN items |-> IF items[i].k = k THEN [k |-> k, v |-> v] ELSE items[i]]
  ELSE Append(items, [k |-> k, v |-> v])

(***************************************************************************)
(* core/api_manager.py : APIManager.clean_json_response                    *)
(***************************************************************************)

\* re.search(r'(\{.*\})', content, re.DOTALL): <<found, match.group(1)>>.
\* The match starts at the first "{"; ".*" is greedy and DOTALL, so it ends
\* at the last "}" of the content.
search_json_block(content) ==
  LET opens == {i \in DOMAIN content : content[i] = "{"}
      closes == {i \in DOMAIN content : content[i] = "}"}
  IN IF opens # {} /\ closes # {} /\ SetMax(closes) > SetMin(opens)
     THEN <<TRUE, SubSeq(content, SetMin(opens), SetMax(closes))>>
     ELSE <<FALSE, <<>>>>

\* first position >= p that holds no whitespace (Len + 1 when there is none)
RECURSIVE ws_end(_, _)
ws_end(t, p) == IF p <= Len(t) /\ IsSpace(t[p]) THEN ws_end(t, p + 1) ELSE p

\* first position >= p that holds a character of excl (Len + 1 when none)
RECURSIVE run_end(_, _, _)
run_end(t, p, excl) == IF p <= Len(t) /\ t[p] \notin excl THEN run_end(t, p + 1, excl) ELSE p

At(t, p) == IF p >= 1 /\ p <= Len(t) THEN t[p] ELSE ""

\* one of the three bullet patterns matched at position p:
\*   [prefix \s*] \*\*([^:*]+)\*\*:\s*([^\n<stop>]+)
\* [ok, key, value, end |-> position after the match]
match_bullet(t, p, prefix, stop) ==
  LET q0 == IF prefix = "" THEN p ELSE IF At(t, p) = prefix THEN ws_end(t, p + 1) ELSE 0
      k1 == q0 + 2
      k2 == run_end(t, k1, {":", "*"})
      v0 == k2 + 3
      w == ws_end(t, v0)
      excl == {"\n"} \cup stop
      \* \s* gives characters back until the value can start
      starts == {q \in v0..w : q <= Len(t) /\ t[q] \notin excl}
      q == SetMax(starts)
      e == run_end(t, q, excl)
  IN IF /\ q0 >= 1 /\ At(t, q0) = "*" /\ At(t, q0 + 1) = "*"
        /\ k2 > k1
        /\ At(t, k2) = "*" /\ At(t, k2 + 1) = "*" /\ At(t, k2 + 2) = ":"
        /\ starts # {}
     THEN [ok |-> TRUE, key |-> SubSeq(t, k1, k2 - 1), value |-> SubSeq(t, q, e - 1), end |-> e]
     ELSE [ok |-> FALSE, key |-> <<>>, value |-> <<>>, end |-> p + 1]

\* re.findall(pattern, content) from position p on
RECURSIVE findall_bullets(_, _, _, _)
findall_bullets(t, p, prefix, stop) ==
  IF p > Len(t) THEN <<>>
  ELSE LET m == match_bullet(t, p, prefix, stop)
       IN IF m.ok THEN <<[key |-> m.key, value |-> m.value]>> \o findall_bullets(t, m.end, prefix, stop)
          ELSE findall_bullets(t, p + 1, prefix, stop)

\* re.sub(r'_+', '_', t)
RECURSIVE collapse_underscores(_)
collapse_underscores(t) ==
  IF Len(t) < 2 THEN t
  ELSE IF t[1] = "_" /\ t[2] = "_" THEN collapse_underscores(Tail(t))
  ELSE <<t[1]>> \o collapse_underscores(Tail(t))

\* str.strip('_')
strip_underscores(t) ==
  LET keep == {i \in DOMAIN t : t[i] # "_"}
  IN IF keep = {} THEN <<>> ELSE SubSeq(t, SetMin(keep), SetMax(keep))

\* norm_key: "Download Mbps" -> "download_mbps"
norm_key(key) ==
  LET k0 == strip(key)
      k1 == Lower([i \in DOMAIN k0 |-> IF IsAlnum(k0[i]) THEN k0[i] ELSE "_"])
  IN strip_underscores(collapse_underscores(k1))

\* text is [sign] digits
IsIntText(t) ==
  LET d0 == IF At(t, 1) \in {"-", "+"} THEN 2 ELSE 1
  IN d0 <= Len(t) /\ \A i \in d0..Len(t) : IsDigit(t[i])

\* text is [sign] digits "." digits with a digit on one side at least
IsFloatText(t) ==
  LET d0 == IF At(t, 1) \in {"-", "+"} THEN 2 ELSE 1
      ip == digits_from(t, d0)
      dot == d0 + Len(ip)
      fp == digits_from(t, dot + 1)
  IN At(t, dot) = "." /\ dot + Len(fp) = Len(t) /\ (ip # <<>> \/ fp # <<>>)

\* the try/except around float(value) / int(value)
parse_bullet_value(value0) ==
  LET value == strip(value0)
      d0 == IF At(value, 1) \in {"-", "+"} THEN 2 ELSE 1
      neg == At(value, 1) = "-"
      ip == digits_from(value, d0)
      fp == digits_from(value, d0 + Len(ip) + 1)
  IN IF (\E i \in DOMAIN value : value[i] = ".") /\ IsFloatText(value)
     THEN float_of(neg, ip, fp)
     ELSE IF (\A i \in DOMAIN value : value[i] # ".") /\ IsIntText(value)
     THEN IntV(neg /\ strip_leading_zeros(ip) # <<"0">>, strip_leading_zeros(ip))
     ELSE IF Lower(value) = <<"n","u","l","l">> THEN NoneV
     ELSE Str(value)

\* result[norm_key] = ... for every match of one pattern
RECURSIVE put_bullets(_, _, _)
put_bullets(result, matches, i) ==
  IF i > Len(matches) THEN result
  ELSE put_bullets(dict_put(result, norm_key(matches[i].key), parse_bullet_value(matches[i].value)),
                   matches, i + 1)

\* the fallback: the three patterns in turn, each over the whole content
bullets_result(content) ==
  LET r1 == put_bullets(<<>>, findall_bullets(content, 1, "*", {"*"}), 1)
      r2 == put_bullets(r1, findall_bullets(content, 1, "-", {"-"}), 1)
  IN put_bullets(r2, findall_bullets(content, 1, "", {}), 1)

\* APIManager.clean_json_response
clean_json_response(content) ==
  IF content = <<>> THEN <<"{", "}">>
  ELSE IF search_json_block(content)[1] THEN strip(search_json_block(content)[2])
  ELSE IF bullets_result(content) # <<>> THEN json_dumps(Dict(bullets_result(content)))
  ELSE <<"{", "}">>

\* pieces of a model's answer
F_open == <<"{">>
F_close == <<"}">>
F_pair == <<"\"","a","\"",":"," ","1">>
F_note == <<" ","n","o","t","e"," ">>
F_bold_key == <<"*","*","K","e","y","*","*",":"," ","7">>
F_bold_null == <<"*","*","U","p"," ","M","b","p","s","*","*",":"," ","n","u","l","l">>
F_newline == <<"\n">>
F_star == <<"*"," ">>
F_dash == <<"-"," ">>
F_frac == <<".","5">>

Fragments == {F_open, F_close, F_pair, F_note, F_bold_key, F_bold_null, F_newline, F_star, F_dash, F_frac}

\* most pieces in a content
MaxPieces == 3

RECURSIVE concat(_)
concat(pieces) == IF pieces = <<>> THEN <<>> ELSE pieces[1] \o concat(Tail(pieces))

\* contents: up to MaxPieces pieces one after the other
Contents == {concat(ps) : ps \in UNION {[1..n -> Fragments] : n \in 0..MaxPieces}}

CleanIdle ==
  /\ cj_pc = "idle"
  /\ cj_content = <<>>
  /\ cj_result = <<>>

\* clean_json_response(content) is called
CleanInit ==
  /\ cj_pc = "call"
  /\ cj_content \in Contents
  /\ cj_result = <<>>

\* the call returns
CleanReturn ==
  /\ cj_pc = "call"
  /\ cj_result' = clean_json_response(cj_content)
  /\ cj_pc' = "done"
  /\ UNCHANGED cj_content
  /\ UNCHANGED not_cj

(***************************************************************************)
(* core/extractor.py : Extractor._reasoning_parse                          *)
(***************************************************************************)

\* texts a reasoning model puts in a field
T_363_Mbps == <<"3","6","3"," ","M","b","p","s">>
T_m85_dBm == <<"-","8","5"," ","d","B","m">>
T_q104q == <<"'","1","0","4","'">>
T_NA == <<"N","/","A">>
T_empty == <<>>
T_m85 == <<"-","8","5">>
T_007_50 == <<"0","0","7",".","5","0">>
T_1c30 == <<"1",":","3","0">>
T_1080p == <<"1","0","8","0","p">>
T_unit == <<"u","n","i","t">>
T_Mbps == <<"M","b","p","s">>
T_dash == <<"-">>

\* JSON values the reasoning model can give a numeric field
NumericValues ==
  {NoneV, IntV(FALSE, <<"3","6","3">>), IntV(FALSE, <<"0">>), Num(TRUE, <<"8","5">>, <<"5">>),
   Str(T_363_Mbps), Str(T_m85_dBm), Str(T_q104q), Str(T_NA), Str(T_empty), Str(T_m85),
   Str(T_007_50), Str(T_1c30), Str(T_dash)}

\* JSON values the reasoning model can give a second field
SecondValues == {NoneV, IntV(FALSE, <<"1","0","8","0">>), Str(T_1080p)}

\* the field of each schema the samples vary first, and second
PrimaryField(kind) ==
  CASE kind = "service" -> S_nr5g_rsrp
    [] kind = "speed" -> S_download_mbps
    [] kind = "video" -> S_load_time_ms
    [] OTHER -> S_call_duration_seconds

SecondField(kind) ==
  CASE kind = "service" -> S_nr_arfcn
    [] kind = "speed" -> S_ping_ms
    [] kind = "video" -> S_max_resolution
    [] OTHER -> S_call_status

\* objects json.loads can return for the reasoning model's answer: each of
\* the two fields is missing or holds a value, and a key outside the schema
\* may be present
DataSamples(kind) ==
  {(IF p.has THEN <<[k |-> PrimaryField(kind), v |-> p.v]>> ELSE <<>>)
   \o (IF q.has THEN <<[k |-> SecondField(kind), v |-> q.v]>> ELSE <<>>)
   \o (IF x THEN <<[k |-> T_unit, v |-> Str(T_Mbps)]>> ELSE <<>>) :
     p \in {[has |-> FALSE, v |-> NoneV]} \cup {[has |-> TRUE, v |-> v] : v \in NumericValues},
     q \in {[has |-> FALSE, v |-> NoneV]} \cup {[has |-> TRUE, v |-> v] : v \in SecondValues},
     x \in BOOLEAN}

\* answers of the reasoning model given as their text: nothing at all,
\* prose without an object, an object followed by a stray brace, an empty
\* object
RawContents == {<<>>, F_note, <<"{", "}", "}">>, F_note \o <<"{", "}">>}

\* json.loads on a text made of braces only: "{}" is the empty object, any
\* other such text is rejected
json_loads_braces(text) ==
  IF text = <<"{", "}">> THEN [t |-> "object", data |-> <<>>] ELSE [t |-> "malformed", data |-> <<>>]

\* what post_reasoning_completion returns, with what json.loads makes of
\* it: None (the call raised or the response had no choices), or
\* clean_json_response(content).  For a content given as text, raw is
\* <<content>>; for a content that spells a JSON object, which
\* clean_json_response returns as it is, data holds the object and raw is
\* empty; "malformed" is an object text json.loads rejects.
ReasoningResults(kind) ==
  {NoJson, [t |-> "malformed", data |-> <<>>, raw |-> <<>>]}
  \cup {[t |-> "object", data |-> d, raw |-> <<>>] : d \in DataSamples(kind)}
  \cup {[t |-> json_loads_braces(clean_json_response(c)).t, data |-> <<>>, raw |-> <<c>>] : c \in RawContents}

\* _reasoning_parse up to the return of post_reasoning_completion
ExReasoning ==
  /\ ex_pc = "reason"
  /\ \E j \in ReasoningResults(ex_kind) :
       /\ ex_json' = j
       /\ ex_calls' = Append(ex_calls, "reasoning")
       /\ IF j.t = "none"
          THEN ex_result' = Absent /\ ex_pc' = "done"
          ELSE ex_pc' = "parse" /\ UNCHANGED ex_result
  /\ ctx_logs' = Append(ctx_logs, "[PARSE] Reasoning...")
  /\ UNCHANGED <<ex_kind, ex_text, ex_text2, ex_prompt>>
  /\ UNCHANGED <<ctx_service, ctx_speedtest, ctx_video, ctx_voice_test, ctx_extract_text>>
  /\ UNCHANGED not_ex

\* data after the optional cleaning loop of _reasoning_parse
parsed_data(kind, data) == IF CleanNumbersOf(kind) THEN clean_data(data) ELSE data

\* the rest of _reasoning_parse: json.loads, number cleaning, schema_cls,
\* the nulls log line; any exception is logged and None is returned
ExParse ==
  /\ ex_pc = "parse"
  /\ IF ex_json.t = "malformed"
     THEN /\ ex_result' = Absent
          /\ ctx_logs' = Append(ctx_logs, "[PARSE ERROR]")
     ELSE LET data == parsed_data(ex_kind, ex_json.data)
              r == schema_cls(FieldsOf(ex_kind), data)
          IN IF ~r.ok
             THEN /\ ex_result' = Absent
                  /\ ctx_logs' = Append(ctx_logs, "[PARSE ERROR]")
             ELSE /\ ex_result' = [t |-> "record", model |-> r.model]
                  /\ ctx_logs' = Append(ctx_logs,
                       IF \E i \in DOMAIN data : data[i].v = NoneV
                       THEN "[WARN] Nulls" ELSE "[OK] All fields parsed")
  /\ ex_pc' = "done"
  /\ UNCHANGED <<ex_kind, ex_calls, ex_text, ex_text2, ex_prompt, ex_json>>
  /\ UNCHANGED <<ctx_service, ctx_speedtest, ctx_video, ctx_voice_test, ctx_extract_text>>
  /\ UNCHANGED not_ex


(***************************************************************************)
(* core/file_handler.py : FileHandler                                      *)
(***************************************************************************)

\* sector names extract_images_from_excel gives images
FhSectors == {"alpha", "beta", "gamma", "voicetest", "unknown"}

SectorChars(sector) ==
  CASE sector = "alpha" -> S_alpha
    [] sector = "beta" -> S_beta
    [] sector = "gamma" -> S_gamma
    [] sector = "voicetest" -> S_voicetest
    [] OTHER -> S_unknown

\* the if/elif chain on col_index
sector_of_col(col_index) ==
  IF 0 <= col_index /\ col_index < 4 THEN "alpha"
  ELSE IF 4 <= col_index /\ col_index < 8 THEN "beta"
  ELSE IF 8 <= col_index /\ col_index < 12 THEN "gamma"
  ELSE IF 12 <= col_index /\ col_index < 18 THEN "voicetest"
  ELSE "unknown"

\* str(n) for n >= 0
RECURSIVE str_of_nat(_)
str_of_nat(n) ==
  IF n < 10 THEN <<DigitChars[n + 1]>> ELSE str_of_nat(n \div 10) \o <<DigitChars[(n % 10) + 1]>>

\* stem of f"{sector}_image_{counters[sector]}.png"
image_name(sector, n) == SectorChars(sector) \o <<"_">> \o S_image \o <<"_">> \o str_of_nat(n)

\* the loop over images_sorted: counters[sector] += 1 comes before the save,
\* so an image whose save fails still uses up its number
RECURSIVE extract_loop(_, _, _, _)
extract_loop(book, failed, i, counters) ==
  IF i > Len(book) THEN <<>>
  ELSE LET sector == sector_of_col(book[i])
           n == counters[sector] + 1
       IN (IF i \in failed THEN <<>> ELSE <<image_name(sector, n)>>)
          \o extract_loop(book, failed, i + 1, [counters EXCEPT ![sector] = n])

\* saved_paths of extract_images_from_excel, as stems
saved_paths(book, failed) == extract_loop(book, failed, 1, [x \in FhSectors |-> 0])

\* FileHandler.get_image_path(name) is not None
get_image_path(name) == \E i \in DOMAIN wf_images : wf_images[i] = name

(***************************************************************************)
(* core/evaluator.py : Evaluator.process_workflow                          *)
(***************************************************************************)

\* str.split(sep)
RECURSIVE split_from(_, _, _, _)
split_from(s, sep, i, cur) ==
  IF i > Len(s) THEN <<cur>>
  ELSE IF s[i] = sep THEN <<cur>> \o split_from(s, sep, i + 1, <<>>)
  ELSE split_from(s, sep, i + 1, Append(cur, s[i]))

split(s, sep) == split_from(s, sep, 1, <<>>)

DigitVal(c) == CHOOSE d \in 0..9 : DigitChars[d + 1] = c

RECURSIVE nat_of(_)
nat_of(d) == IF d = <<>> THEN 0 ELSE 10 * nat_of(SubSeq(d, 1, Len(d) - 1)) + DigitVal(d[Len(d)])

\* int(text): [ok |-> no ValueError, n |-> the value]
int_of(text) ==
  IF text # <<>> /\ \A i \in DOMAIN text : IsDigit(text[i])
  THEN [ok |-> TRUE, n |-> nat_of(text)]
  ELSE [ok |-> FALSE, n |-> 0]

\* parameters of the Extractor methods (all positional, none with a default)
params_analyze_service_images == <<"sector", "img1", "img2", "vision_provider", "reasoning_provider">>
params_analyze_speed_test == <<"img", "vision_provider", "reasoning_provider">>
params_analyze_video_test == <<"img", "vision_provider", "reasoning_provider">>
params_analyze_voice_call == <<"img", "vision_provider", "reasoning_provider">>

\* arguments process_workflow passes at each call site
args_service_call == <<"sector", "img1", "img2", "provider_service">>
args_speed_call == <<"img_path", "provider_speed">>
args_video_call == <<"img_path", "provider_video">>
args_voice_call == <<"img_path", "provider_voice">>

\* a positional call binds when it gives every parameter; otherwise Python
\* raises TypeError before the body runs
call_binds(params, args) == Len(args) = Len(params)

route_of_speed_up_to_8(name) ==
  LET parts == split(name, "_")
  IN IF ~(Len(parts) >= 3 /\ parts[2] = S_image) THEN "nopattern"
     ELSE IF ~int_of(parts[3]).ok THEN "badnumber"
     ELSE IF parts[1] = S_voicetest THEN "voice"
     ELSE LET suffix == int_of(parts[3]).n
          IN IF suffix = 1 \/ suffix = 2 THEN "service12"
             ELSE IF 3 <= suffix /\ suffix <= 8 THEN "speed"
             ELSE "nomatch"

\* the branch of the routing loop an image name takes:
\* "nopattern" (else: pass), "badnumber" (ValueError), "voice", "service12"
\* (continue), "speed", "video", "nomatch" (the warning)
route_of(name) ==
  LET parts == split(name, "_")
  IN IF ~(Len(parts) >= 3 /\ parts[2] = S_image) THEN "nopattern"
     ELSE IF ~int_of(parts[3]).ok THEN "badnumber"
     ELSE IF parts[1] = S_voicetest THEN "voice"
     ELSE LET suffix == int_of(parts[3]).n
          IN IF suffix = 1 \/ suffix = 2 THEN "service12"
             ELSE IF 3 <= suffix /\ suffix <= 7 THEN "speed"
             ELSE IF suffix = 8 THEN "video"
             ELSE "nomatch"

\* branches that write a log line for the image
route_logs(route) == route \in {"badnumber", "nomatch"}

\* parts[0] as an attribute prefix of the context, "" when the context has
\* no {sector}_speedtest / {sector}_video attribute
context_sector(name) ==
  LET p == split(name, "_")[1]
  IN IF \E x \in SectorSet : SectorChars(x) = p
     THEN CHOOSE x \in SectorSet : SectorChars(x) = p
     ELSE ""

\* what an extractor method can return: None or a record
ExtractorReturns(fields) == {[t |-> "absent", model |-> <<>>], [t |-> "record", model |-> EmptyModel(fields)]}

WorkflowIdle ==
  /\ wf_pc = "idle"
  /\ wf_book = <<>>
  /\ wf_images = <<>>
  /\ wf_sector = 0
  /\ wf_i = 0
  /\ wf_routed = <<>>
  /\ wf_service_called = <<>>
  /\ wf_exc = ""
  /\ wf_return = "unset"

\* most images of one sector in a workbook
MaxImages == 9
\* most images in a workbook that mixes sectors
MaxMixed == 2

\* one column of each range the naming distinguishes
ColSamples == {0, 5, 9, 14, 18}

\* workbooks: no image, up to MaxImages images under one sector's columns,
\* up to MaxMixed images under any columns
Books ==
  {<<>>} \cup {[i \in 1..n |-> c] : n \in 1..MaxImages, c \in ColSamples}
  \cup UNION {[1..n -> ColSamples] : n \in 1..MaxMixed}

\* the template's cells in a workflow run
WorkflowSheets ==
  {<<[value |-> Str(Expr_rsrp), bold |-> TRUE, rgb |-> S_FFFF0000, col |-> 1]>>,
   <<[value |-> Str(Expr_alpha), bold |-> TRUE, rgb |-> S_FFFF0000, col |-> 4]>>}

\* process_workflow(xlsx_path, ...) is called with its five arguments
WorkflowInit ==
  /\ wf_pc = "start"
  /\ wf_book \in Books
  /\ wf_images = <<>>
  /\ wf_sector = 0
  /\ wf_i = 0
  /\ wf_routed = <<>>
  /\ wf_service_called = <<>>
  /\ wf_exc = ""
  /\ wf_return = "unset"

\* images = extract_images_from_excel(xlsx_path); if not images: log, return None
WfExtractImages ==
  /\ wf_pc = "start"
  /\ \E load_ok \in BOOLEAN, failed \in SUBSET DOMAIN wf_book :
       /\ ~load_ok => failed = {}
       /\ LET images == IF load_ok THEN saved_paths(wf_book, failed) ELSE <<>>
              fh_logs == <<"Analyzing template file">>
                         \o (IF ~load_ok THEN <<"[ERROR] Could not open Excel file">>
                             ELSE IF wf_book = <<>> THEN <<"[WARN] No images found in workbook.">>
                             ELSE [i \in DOMAIN wf_book |->
                                     IF i \in failed THEN "[ERROR] Failed to save" ELSE "  - Extracted"])
          IN /\ wf_images' = images
             /\ IF images = <<>>
                THEN /\ ctx_logs' = ctx_logs \o fh_logs \o <<"[ERROR] No images found.">>
                     /\ wf_pc' = "done"
                     /\ wf_return' = "None"
                     /\ UNCHANGED wf_sector
                ELSE /\ ctx_logs' = ctx_logs \o fh_logs
                     /\ wf_pc' = "service"
                     /\ wf_sector' = 1
                     /\ UNCHANGED wf_return
  /\ UNCHANGED <<wf_book, wf_i, wf_routed, wf_service_called, wf_exc>>
  /\ UNCHANGED <<ctx_service, ctx_speedtest, ctx_video, ctx_voice_test, ctx_extract_text>>
  /\ UNCHANGED <<mp_vars, not_wf>>

\* one iteration of: for sector in ["alpha", "beta", "gamma"]
WfServiceSector ==
  /\ wf_pc = "service"
  /\ LET sector == Sectors[wf_sector]
         img1 == get_image_path(image_name(sector, 1))
         img2 == get_image_path(image_name(sector, 2))
         next_pc == IF wf_sector < Len(Sectors) THEN "service" ELSE "route"
     IN IF img1 /\ img2
        THEN /\ wf_service_called' = Append(wf_service_called, sector)
             /\ IF ~call_binds(params_analyze_service_images, args_service_call)
                THEN /\ wf_pc' = "raised"
                     /\ wf_exc' = "TypeError"
                     /\ UNCHANGED <<wf_sector, wf_i, ctx_service, ctx_logs>>
                ELSE /\ \E data \in ExtractorReturns(ServiceFields) :
                          IF data.t = "record"
                          THEN /\ ctx_service' = [ctx_service EXCEPT ![sector] = data.model]
                               /\ ctx_logs' = Append(ctx_logs, "[SUCCESS] service data extracted.")
                          ELSE UNCHANGED <<ctx_service, ctx_logs>>
                     /\ wf_pc' = next_pc
                     /\ wf_sector' = IF next_pc = "service" THEN wf_sector + 1 ELSE wf_sector
                     /\ wf_i' = IF next_pc = "route" THEN 1 ELSE wf_i
                     /\ UNCHANGED wf_exc
        ELSE /\ wf_pc' = next_pc
             /\ wf_sector' = IF next_pc = "service" THEN wf_sector + 1 ELSE wf_sector
             /\ wf_i' = IF next_pc = "route" THEN 1 ELSE wf_i
             /\ UNCHANGED <<wf_service_called, wf_exc, ctx_service, ctx_logs>>
  /\ UNCHANGED <<wf_book, wf_images, wf_routed, wf_return>>
  /\ UNCHANGED <<ctx_speedtest, ctx_video, ctx_voice_test, ctx_extract_text>>
  /\ UNCHANGED <<mp_vars, not_wf>>

\* one iteration of: for img_path in images
WfRouteImage ==
  /\ wf_pc = "route"
  /\ wf_i <= Len(wf_images)
  /\ LET name == wf_images[wf_i]
         route == route_of(name)
         params == CASE route = "voice" -> params_analyze_voice_call
                     [] route = "speed" -> params_analyze_speed_test
                     [] OTHER -> params_analyze_video_test
         args == CASE route = "voice" -> args_voice_call
                   [] route = "speed" -> args_speed_call
                   [] OTHER -> args_video_call
         fields == CASE route = "voice" -> VoiceFields
                     [] route = "speed" -> SpeedFields
                     [] OTHER -> VideoFields
         sector == context_sector(name)
     IN /\ wf_routed' = Append(wf_routed, [name |-> name, route |-> route, logged |-> route_logs(route)])
        /\ IF route \in {"voice", "speed", "video"}
           THEN IF ~call_binds(params, args)
                THEN /\ wf_pc' = "raised"
                     /\ wf_exc' = "TypeError"
                     /\ UNCHANGED <<wf_i, ctx_speedtest, ctx_video, ctx_voice_test, ctx_logs>>
                ELSE \E data \in ExtractorReturns(fields) :
                       IF data.t = "absent"
                       THEN /\ wf_i' = wf_i + 1
                            /\ UNCHANGED <<wf_pc, wf_exc, ctx_speedtest, ctx_video, ctx_voice_test, ctx_logs>>
                       ELSE IF route = "voice"
                       THEN /\ ctx_voice_test' = dict_put(ctx_voice_test, name, data.model)
                            /\ wf_i' = wf_i + 1
                            /\ UNCHANGED <<wf_pc, wf_exc, ctx_speedtest, ctx_video, ctx_logs>>
                       ELSE IF sector = ""
                       THEN \* getattr(self.context, f"{sector}_speedtest") has no such attribute
                            /\ wf_pc' = "raised"
                            /\ wf_exc' = "AttributeError"
                            /\ UNCHANGED <<wf_i, ctx_speedtest, ctx_video, ctx_voice_test, ctx_logs>>
                       ELSE /\ wf_i' = wf_i + 1
                            /\ ctx_speedtest' = IF route = "speed"
                                                THEN [ctx_speedtest EXCEPT ![sector] = dict_put(@, name, data.model)]
                                                ELSE ctx_speedtest
                            /\ ctx_video' = IF route = "video"
                                            THEN [ctx_video EXCEPT ![sector] = dict_put(@, name, data.model)]
                                            ELSE ctx_video
                            /\ UNCHANGED <<wf_pc, wf_exc, ctx_voice_test, ctx_logs>>
           ELSE /\ wf_i' = wf_i + 1
                /\ ctx_logs' = CASE route = "badnumber" -> Append(ctx_logs, "[WARN] Could not parse number")
                                 [] route = "nomatch" -> Append(ctx_logs, "[WARN] Image did not match any pipeline. Skipping.")
                                 [] OTHER -> ctx_logs
                /\ UNCHANGED <<wf_pc, wf_exc, ctx_speedtest, ctx_video, ctx_voice_test>>
  /\ UNCHANGED <<wf_book, wf_images, wf_sector, wf_service_called, wf_return>>
  /\ UNCHANGED <<ctx_service, ctx_extract_text>>
  /\ UNCHANGED <<mp_vars, not_wf>>

WfVerifyAndMapEarly ==
  /\ wf_pc = "route"
  /\ ctx_logs' = Append(ctx_logs, "[EVAL] Rule 2: Verifying data completeness...")
  /\ wf_pc' = "map"
  /\ mp_pc' = "load"
  /\ UNCHANGED <<wf_book, wf_images, wf_sector, wf_i, wf_routed, wf_service_called, wf_exc, wf_return>>
  /\ UNCHANGED <<ctx_service, ctx_speedtest, ctx_video, ctx_voice_test, ctx_extract_text>>
  /\ UNCHANGED <<doc_disk, doc_orig, mp_wb, mp_pos, cells_to_update, mp_resolved, mp_saves>>
  /\ UNCHANGED not_wf

\* the routing loop is over: verify_completeness(...), then map_to_excel is
\* entered
WfVerifyAndMap ==
  /\ wf_pc = "route"
  /\ wf_i > Len(wf_images)
  /\ ctx_logs' = ctx_logs \o <<"[EVAL] Rule 2: Verifying data completeness...">>
                 \o (IF \E i \in DOMAIN ctx_service["alpha"] :
                          /\ ctx_service["alpha"][i].k = S_nr_arfcn
                          /\ ctx_service["alpha"][i].v \in {NoneV, Num(FALSE, <<"0">>, <<"0">>)}
                     THEN <<"[EVAL] Alpha Service missing fields. Retrying...">> ELSE <<>>)
  /\ wf_pc' = "map"
  /\ mp_pc' = "load"
  /\ UNCHANGED <<wf_book, wf_images, wf_sector, wf_i, wf_routed, wf_service_called, wf_exc, wf_return>>
  /\ UNCHANGED <<ctx_service, ctx_speedtest, ctx_video, ctx_voice_test, ctx_extract_text>>
  /\ UNCHANGED <<doc_disk, doc_orig, mp_wb, mp_pos, cells_to_update, mp_resolved, mp_saves>>
  /\ UNCHANGED not_wf

\* map_to_excel returned: return xlsx_path
WfReturn ==
  /\ wf_pc = "map"
  /\ mp_pc = "done"
  /\ wf_pc' = "done"
  /\ wf_return' = "xlsx_path"
  /\ UNCHANGED <<wf_book, wf_images, wf_sector, wf_i, wf_routed, wf_service_called, wf_exc>>
  /\ UNCHANGED <<ctx_vars, mp_vars, not_wf>>


(***************************************************************************)
(* map_to_excel called on the same cells in two scan orders                *)
(***************************************************************************)

OrderIdle ==
  /\ ord_pass = 0
  /\ ord_perm = <<>>
  /\ ord_first = <<>>

\* the orders in which n cells can be met
Perms(n) == {f \in [1..n -> 1..n] : \A i, j \in 1..n : f[i] = f[j] => i = j}

\* cells of the documents scanned in two orders
OrderCells ==
  { [value |-> Str(Expr_rsrp), bold |-> TRUE, rgb |-> S_FFFF0000, col |-> 1],
    [value |-> Str(Expr_quoted_average), bold |-> TRUE, rgb |-> S_00FF0000, col |-> 2],
    [value |-> Str(Expr_speed), bold |-> TRUE, rgb |-> S_ffff0000, col |-> 16],
    [value |-> Str(Expr_rsrp), bold |-> TRUE, rgb |-> S_FFFF0000, col |-> 3],
    [value |-> Str(Expr_rsrp), bold |-> TRUE, rgb |-> S_FFFF0000, col |-> 17] }

OrderSheets == UNION {[1..n -> OrderCells] : n \in 1..MaxCells}

\* map_to_excel(xlsx_path) is called on a document; a second call will meet
\* the same cells in the order ord_perm
OrderInit ==
  /\ doc_disk \in OrderSheets
  /\ doc_orig = doc_disk
  /\ mp_pc = "load"
  /\ mp_wb = <<>>
  /\ mp_pos = 0
  /\ cells_to_update = <<>>
  /\ mp_resolved = <<>>
  /\ mp_saves = 0
  /\ ord_pass = 1
  /\ ord_perm \in Perms(Len(doc_disk))
  /\ ord_first = <<>>

\* the first call has returned: map_to_excel(xlsx_path) is called on the
\* document that holds the original cells in the other order
MapAgain ==
  /\ mp_pc = "done"
  /\ ord_pass = 1
  /\ ord_pass' = 2
  /\ ord_first' = doc_disk
  /\ doc_disk' = [i \in DOMAIN doc_orig |-> doc_orig[ord_perm[i]]]
  /\ doc_orig' = doc_disk'
  /\ mp_pc' = "load"
  /\ mp_wb' = <<>>
  /\ mp_pos' = 0
  /\ cells_to_update' = <<>>
  /\ mp_resolved' = <<>>
  /\ UNCHANGED <<mp_saves, ord_perm>>
  /\ UNCHANGED <<ctx_vars, not_ord>>


(***************************************************************************)
(* Specifications                                                          *)
(***************************************************************************)

\* post_chat_completion under every sequence of attempt outcomes
DocIdle == doc_disk = <<>> /\ doc_orig = <<>>

InitApi == ApiInit /\ CtxInit /\ ResolveIdle /\ MapperIdle /\ DocIdle /\ ExtractIdle /\ WorkflowIdle /\ OrderIdle /\ CleanIdle
NextApi == ApiCall \/ ApiPost \/ ApiHandle \/ ApiReset
SpecApi == InitApi /\ [][NextApi]_vars

\* resolve_expression on generated expressions and Run Contexts
InitResolve == ApiInit /\ (\E c \in CtxSamples : CtxIs(c)) /\ ResolveInit /\ MapperIdle /\ DocIdle /\ ExtractIdle /\ WorkflowIdle /\ OrderIdle /\ CleanIdle
NextResolve == ResolveFormat \/ ResolveCall
SpecResolve == InitResolve /\ [][NextResolve]_vars

\* map_to_excel on generated documents and Run Contexts
InitMapper == ApiInit /\ (\E c \in CtxSamples : CtxIs(c)) /\ ResolveIdle /\ MapperInit /\ ExtractIdle /\ WorkflowIdle /\ OrderIdle /\ CleanIdle
NextMapper == MapLoad \/ MapScanCell \/ MapApply \/ MapSave
SpecMapper == InitMapper /\ [][NextMapper]_vars

\* the four extraction pipelines, each called directly
InitExtract == ApiInit /\ CtxInit /\ ResolveIdle /\ MapperIdle /\ DocIdle /\ ExtractInit /\ WorkflowIdle /\ OrderIdle /\ CleanIdle
NextExtract == ExFirstStage \/ ExReasoning \/ ExParse
SpecExtract == InitExtract /\ [][NextExtract]_vars

\* one call of process_workflow on a workbook
InitWorkflow ==
  /\ ApiInit /\ CtxInit /\ ResolveIdle /\ ExtractIdle
  /\ MapperIdle /\ doc_disk \in WorkflowSheets /\ doc_orig = doc_disk
  /\ WorkflowInit
  /\ OrderIdle
  /\ CleanIdle
NextWorkflow ==
  \/ WfExtractImages \/ WfServiceSector \/ WfRouteImage \/ WfVerifyAndMap
  \/ MapLoad \/ MapScanCell \/ MapApply \/ MapSave
  \/ WfReturn
SpecWorkflow == InitWorkflow /\ [][NextWorkflow]_vars

\* two mapping passes over the same cells, met in two orders
InitOrder ==
  /\ ApiInit /\ (\E c \in CtxSamples : CtxIs(c)) /\ ResolveIdle /\ ExtractIdle /\ WorkflowIdle
  /\ OrderInit
  /\ CleanIdle
NextOrder == MapLoad \/ MapScanCell \/ MapApply \/ MapSave \/ MapAgain
SpecOrder == InitOrder /\ [][NextOrder]_vars

\* clean_json_response on each content
InitClean ==
  /\ ApiInit /\ CtxInit /\ ResolveIdle /\ MapperIdle /\ DocIdle /\ ExtractIdle /\ WorkflowIdle /\ OrderIdle
  /\ CleanInit
NextClean == CleanReturn
SpecClean == InitClean /\ [][NextClean]_vars





(***************************************************************************)
(* Claims about post_chat_completion                                       *)
(***************************************************************************)

\* the attempts whose outcome the handler has already acted on
ApiHandled == IF api_pc = "handle" THEN Len(api_outcomes) - 1 ELSE Len(api_outcomes)

ApiTerminal4xx(o) == o.kind = "http" /\ o.status \in 400..499 /\ o.status # 429

ApiRetryable(o) ==
  \/ o.kind \in {"timeout", "connection"}
  \/ o.kind = "http" /\ (o.status = 429 \/ o.status \in 500..599)

\* C1: an HTTP 4xx response other than 429 on any attempt is terminal: once
\* it has been handled the call has raised that error, the request that got
\* it is the last one sent (no 120s attempt after a 4xx on attempt 1) and no
\* backoff sleep follows it.
C1_ClientErrorTerminal ==
  \A k \in 1..ApiHandled :
    ApiTerminal4xx(api_outcomes[k]) =>
      /\ api_pc = "raised"
      /\ api_result.t = "raised"
      /\ api_result.attempt = k
      /\ api_result.status = api_outcomes[k].status
      /\ Len(api_sent) = k
      /\ Len(api_slept) = k - 1

\* a 404 on attempt 1 has been handled
C1_Witness ==
  /\ api_pc = "raised"
  /\ Len(api_outcomes) = 1
  /\ api_outcomes[1] = [kind |-> "http", status |-> 404]

\* C2: a retryable failure on attempt 1 (timeout, connection failure, 429,
\* 5xx) triggers exactly one retry, sent with the 120s timeout after one 2s
\* backoff; a failure on attempt 2 fails the call; a success on either
\* attempt returns that response; never more than two requests are sent,
\* the first with 60s and the second with 120s.
C2_TwoAttemptBudget ==
  /\ Len(api_sent) <= 2
  /\ Len(api_sent) >= 1 => api_sent[1].timeout = 60
  /\ Len(api_sent) = 2 =>
       /\ api_sent[2].timeout = 120
       /\ ApiRetryable(api_outcomes[1])
       /\ api_slept = <<2>>
       /\ api_sent[2].url = api_sent[1].url
  /\ api_slept # <<>> => (api_slept = <<2>> /\ ApiHandled >= 1 /\ ApiRetryable(api_outcomes[1]))
  /\ (ApiHandled >= 1 /\ ApiRetryable(api_outcomes[1])) =>
       (Len(api_sent) = 2 \/ (api_pc = "post" /\ api_slept = <<2>>))
  /\ \A k \in 1..ApiHandled :
       /\ api_outcomes[k].kind = "ok" =>
            (api_pc = "returned" /\ api_result.t = "returned" /\ api_result.attempt = k)
       /\ (k = 2 /\ api_outcomes[k].kind # "ok") =>
            (api_pc = "raised" /\ api_result.t = "raised" /\ api_result.attempt = 2
               /\ api_result.kind = api_outcomes[2].kind)

\* a timeout on attempt 1, then a timeout on the 120s attempt: the call failed
C2_Witness ==
  /\ api_pc = "raised"
  /\ Len(api_sent) = 2
  /\ api_outcomes[1].kind = "timeout"
  /\ api_outcomes[2].kind = "timeout"
  /\ api_sent[2].timeout = 120

(***************************************************************************)
(* Claims about resolve_expression                                         *)
(***************************************************************************)

\* a name with every non-alphanumeric character removed, lowercased
RECURSIVE Canon(_)
Canon(s) ==
  IF s = <<>> THEN <<>>
  ELSE (IF IsAlnum(s[1]) THEN <<lower(s[1])>> ELSE <<>>) \o Canon(Tail(s))

\* the value at a path of keys below v, NoneV when a step has no match or
\* the value reached is not a mapping
RECURSIVE PathValue(_, _, _)
PathValue(v, keys, i) ==
  IF i > Len(keys) THEN v
  ELSE IF v.t # "dict" THEN NoneV
  ELSE LET hits == {j \in DOMAIN v.items : Canon(v.items[j].k) = Canon(keys[i])}
       IN IF hits = {} THEN NoneV
          ELSE PathValue(v.items[CHOOSE j \in hits : TRUE].v, keys, i + 1)

FieldOf(m, name) == m[CHOOSE i \in DOMAIN m : m[i].k = name].v

Expr_alpha_rsrp == <<"a","l","p","h","a","_","s","e","r","v","i","c","e","[","'","n","r","5","g","_","r","s","r","p","'","]">>
Expr_beta_download == <<"b","e","t","a","_","s","p","e","e","d","t","e","s","t","[","'","b","e","t","a","_","i","m","a","g","e","_","3","'","]","[","'","d","o","w","n","l","o","a","d","_","m","b","p","s","'","]">>
Expr_beta_download_dashed == <<"b","e","t","a","_","s","p","e","e","d","t","e","s","t","[","'","B","E","T","A","-","I","M","A","G","E","-","3","'","]","[","'","D","O","W","N","L","O","A","D","-","M","B","P","S","'","]">>

\* C8: resolve_expression on <identifier><bracket accessors> returns
\* unresolved (None) when the identifier matches no top-level name of the
\* snapshot, when an accessor step finds no normalized match, or when an
\* intermediate value is not a mapping; otherwise it returns the value at
\* that path.  alpha_service['nr5g_rsrp'] with nr5g_rsrp = -85 yields -85;
\* beta_speedtest['beta_image_3']['download_mbps'] with no such record
\* yields unresolved.
C8_ResolveContract ==
  (rs_pc = "done" /\ rs_fmt \in BracketFormats) =>
    LET snap == to_dict.items
        tops == {i \in DOMAIN snap : Canon(snap[i].k) = Canon(rs_ident)}
    IN /\ tops = {} => rs_r1 = NoneV
       /\ tops # {} => rs_r1 = PathValue(snap[CHOOSE i \in tops : TRUE].v, rs_keys, 1)
       /\ (rs_e1 = Expr_alpha_rsrp /\ FieldOf(ctx_service["alpha"], S_nr5g_rsrp) = NumMinus85)
            => rs_r1 = NumMinus85
       /\ (rs_e1 = Expr_beta_download /\ ctx_speedtest["beta"] = <<>>) => rs_r1 = NoneV

\* alpha_service['nr5g_rsrp'] has been resolved to -85
C8_Witness ==
  /\ rs_pc = "done"
  /\ rs_e1 = Expr_alpha_rsrp
  /\ rs_r1 = NumMinus85

\* C9: key matching is insensitive to case and punctuation: two expressions
\* whose identifiers and accessor keys are pairwise equal after removing
\* every non-alphanumeric character and lowercasing resolve to the same
\* value; Download Mbps, download_mbps and DOWNLOAD-MBPS all reach the
\* stored field download_mbps.
C9_KeyMatchingInsensitive ==
  rs_pc = "done" =>
    LET ident2 == Respell(rs_ident, rs_istyle)
        keys2 == [i \in DOMAIN rs_keys |-> Respell(rs_keys[i], rs_kstyle)]
    IN /\ (Canon(ident2) = Canon(rs_ident)
            /\ \A i \in DOMAIN rs_keys : Canon(keys2[i]) = Canon(rs_keys[i]))
          => rs_r2 = rs_r1
       /\ (/\ rs_ident = S_beta_speedtest
           /\ rs_keys = <<S_beta_image_3, S_download_mbps>>
           /\ rs_fmt \in BracketFormats
           /\ rs_istyle # "other"
           /\ rs_kstyle \in {"same", "upper", "spaced", "dashed"}
           /\ ctx_speedtest["beta"] # <<>>)
          => (rs_r1 = Num363_5 /\ rs_r2 = Num363_5)

\* beta_speedtest['BETA-IMAGE-3']['DOWNLOAD-MBPS'] has been resolved to the
\* stored download_mbps
C9_Witness ==
  /\ rs_pc = "done"
  /\ rs_e2 = Expr_beta_download_dashed
  /\ rs_e1 = Expr_beta_download
  /\ rs_r2 = Num363_5

(***************************************************************************)
(* Claims about map_to_excel                                               *)
(***************************************************************************)

\* a marked cell: non-empty text, bold, pure red
MarkedCell(cell) ==
  /\ cell.value.t = "str" /\ cell.value.s # <<>>
  /\ cell.bold
  /\ Len(cell.rgb) >= 6
  /\ Upper(SubSeq(cell.rgb, Len(cell.rgb) - 5, Len(cell.rgb))) = <<"F","F","0","0","0","0">>

\* what a cell holds after its expression resolved to val
CellTextFor(val) ==
  IF val.t = "none" THEN Str(<<"N","U","L","L">>)
  ELSE IF val.t = "dict" THEN Str(json_dumps(val))
  ELSE val

ReasoningCalls == Cardinality({i \in DOMAIN ex_calls : ex_calls[i] = "reasoning"})

\* C6 as stated: in a single-image pipeline, a first output whose local
\* parse fails or has a null field leads to the reasoning call, and a first
\* output that parses with no null field is accepted with no second call.
C6_FastPathSkipsReasoning ==
  (ex_pc = "done" /\ ex_kind \in SingleImageKinds) =>
    /\ (ex_text.t = "text" /\ ex_text.fast \in {"unparsable", "partial"}) => ReasoningCalls >= 1
    /\ (ex_text.t = "text" /\ ex_text.fast = "complete") => ReasoningCalls = 0

\* C6 (amended): a single-image pipeline makes exactly one reasoning call
\* whenever its first stage returned a non-empty text, whether or not that
\* text already holds every field; it makes none, and returns no record,
\* when the first stage returned nothing.  No record is returned without
\* the reasoning call.
C6_ReasoningAlwaysCalledOnText ==
  ex_kind \in SingleImageKinds =>
    /\ ReasoningCalls <= 1
    /\ ex_result.t = "record" => ReasoningCalls = 1
    /\ ex_pc = "done" =>
         IF ex_text.t = "text" /\ ex_text.fast # "empty"
         THEN ex_calls = <<FirstStageOf(ex_kind), "reasoning">>
         ELSE ex_calls = <<FirstStageOf(ex_kind)>> /\ ex_result = Absent

\* a Speed run whose OCR text was already complete and that still went
\* through the reasoning model
C6_Witness ==
  /\ ex_pc = "done"
  /\ ex_kind = "speed"
  /\ ex_text.t = "text" /\ ex_text.fast = "complete"
  /\ ex_calls = <<"ocr", "reasoning">>
  /\ ex_result.t = "record"

Zero == Num(FALSE, <<"0">>, <<"0">>)

\* the number each sample value of a numeric field stands for once cleaned
CleanedSamples ==
  {<<NoneV, NoneV>>,
   <<IntV(FALSE, <<"3","6","3">>), Num(FALSE, <<"3","6","3">>, <<"0">>)>>,
   <<IntV(FALSE, <<"0">>), Zero>>,
   <<Num(TRUE, <<"8","5">>, <<"5">>), Num(TRUE, <<"8","5">>, <<"5">>)>>,
   <<Str(T_363_Mbps), Num(FALSE, <<"3","6","3">>, <<"0">>)>>,
   <<Str(T_m85_dBm), Num(TRUE, <<"8","5">>, <<"0">>)>>,
   <<Str(T_q104q), Num(FALSE, <<"1","0","4">>, <<"0">>)>>,
   <<Str(T_NA), NoneV>>,
   <<Str(T_empty), NoneV>>,
   <<Str(T_m85), Num(TRUE, <<"8","5">>, <<"0">>)>>,
   <<Str(T_007_50), Num(FALSE, <<"7">>, <<"5">>)>>,
   <<Str(T_1c30), Num(FALSE, <<"1">>, <<"0">>)>>,
   <<Str(T_dash), NoneV>>,
   <<IntV(FALSE, <<"1","0","8","0">>), Num(FALSE, <<"1","0","8","0">>, <<"0">>)>>,
   <<Str(T_1080p), Num(FALSE, <<"1","0","8","0">>, <<"0">>)>>}

\* C7: in a returned record a field missing from the model's output is
\* null; a field present in it holds the value given, after number cleaning
\* for numeric fields, and is null when the value given is null or spells
\* no number.  A field is 0 only when the output gave 0.
C7_NullNeverDefault ==
  ex_result.t = "record" =>
    \A i \in DOMAIN ex_result.model :
      LET f == ex_result.model[i].k
          v == ex_result.model[i].v
          data == ex_json.data
      IN /\ f = FieldsOf(ex_kind)[i]
         /\ ~HasKey(data, f) => v = NoneV
         /\ HasKey(data, f) =>
              IF f \in StringKeys THEN v = GetKey(data, f)
              ELSE <<GetKey(data, f), v>> \in CleanedSamples
         /\ v = Zero => (HasKey(data, f) /\ GetKey(data, f) = IntV(FALSE, <<"0">>))

\* a Speed record whose download value spelled no number and whose ping was
\* missing: both fields null
C7_Witness ==
  /\ ex_pc = "done"
  /\ ex_kind = "speed"
  /\ ex_result.t = "record"
  /\ HasKey(ex_json.data, S_download_mbps)
  /\ GetKey(ex_json.data, S_download_mbps) = Str(T_NA)
  /\ ~HasKey(ex_json.data, S_ping_ms)
  /\ \A i \in DOMAIN ex_result.model : ex_result.model[i].v = NoneV


(***************************************************************************)
(* process_workflow                                                        *)
(***************************************************************************)

\* the image was an input of a Service pipeline run: it is image 1 or 2 of a
\* sector analyze_service_images was called for
InServiceRun(name) ==
  \E i \in DOMAIN wf_service_called :
    name \in {image_name(wf_service_called[i], 1), image_name(wf_service_called[i], 2)}

\* the routing loop handed the image to the Voice, Speed or Video pipeline
Dispatched(name) ==
  \E i \in DOMAIN wf_routed : wf_routed[i].name = name /\ wf_routed[i].route \in {"voice", "speed", "video"}

\* a log line was written when the image was skipped
SkipLogged(name) ==
  \E i \in DOMAIN wf_routed :
    wf_routed[i].name = name /\ wf_routed[i].logged /\ wf_routed[i].route \in {"badnumber", "nomatch", "nopattern"}

\* C3: once process_workflow has returned the workbook path, every extracted
\* image was either given to exactly one pipeline or skipped with a log
\* line, and not both.
C3_EveryImageOneOutcome ==
  (wf_pc = "done" /\ wf_return = "xlsx_path") =>
    \A k \in DOMAIN wf_images :
      LET name == wf_images[k]
          pipelines == (IF InServiceRun(name) THEN 1 ELSE 0) + (IF Dispatched(name) THEN 1 ELSE 0)
      IN /\ Cardinality({i \in DOMAIN wf_routed : wf_routed[i].name = name}) = 1
         /\ (pipelines = 1 /\ ~SkipLogged(name)) \/ (pipelines = 0 /\ SkipLogged(name))

\* number at the end of an image name the file handler produced
SuffixOf(name) == int_of(split(name, "_")[3]).n

\* C4: each image the routing loop has visited went where its name says:
\* voicetest to Voice; otherwise number 1 or 2 to Service, 3..7 to Speed,
\* 8 to Video, any other number skipped with a warning.
C4_RoutingTable ==
  \A i \in DOMAIN wf_routed :
    LET name == wf_routed[i].name
        route == wf_routed[i].route
        n == SuffixOf(name)
    IN IF split(name, "_")[1] = S_voicetest THEN route = "voice"
       ELSE IF n \in {1, 2} THEN InServiceRun(name)
       ELSE IF n \in 3..7 THEN route = "speed"
       ELSE IF n = 8 THEN route = "video"
       ELSE route = "nomatch" /\ wf_routed[i].logged

\* C5: process_workflow is never left by an exception: whatever fails while
\* an image or a sector is processed, the run goes on.
C5_NeverAborts == wf_pc # "raised"

(***************************************************************************)
(* map_to_excel: staging                                                   *)
(***************************************************************************)

\* C11: while map_to_excel scans, no cell of the loaded workbook has been
\* written: the sheet in memory is still the one that was loaded, and every
\* write waits for the end of the scan.
C11_ScanNeverMutates ==
  mp_pc = "scan" => mp_wb = doc_orig

(***************************************************************************)
(* map_to_excel: determinism                                               *)
(***************************************************************************)

\* the Run Context data a mapping pass reads
CtxData == <<ctx_service, ctx_speedtest, ctx_video, ctx_voice_test>>

\* what C12 says of each state: what a pass resolved for a cell is resolve_expression of that
\* cell's expression in the unchanged Run Context, so two cells with the
\* same expression got the same value; and when both passes saved, each cell
\* holds after the second pass, which met the cells in another order, what
\* it held after the first.
C12_WrittenValueDeterministic ==
  /\ \A j \in DOMAIN mp_resolved : mp_resolved[j].val = resolve_expression(mp_resolved[j].expr)
  /\ \A j, k \in DOMAIN mp_resolved :
       mp_resolved[j].expr = mp_resolved[k].expr => mp_resolved[j].val = mp_resolved[k].val
  /\ (ord_pass = 2 /\ mp_pc = "done" /\ mp_saves = 2) =>
       \A i \in DOMAIN doc_disk : doc_disk[i] = ord_first[ord_perm[i]]

\* C12 in full: the above in every state, and no step of a mapping pass
\* changes the Run Context data.
C12_Deterministic == []C12_WrittenValueDeterministic /\ [][CtxData' = CtxData]_vars

\* two passes over a two-cell document, the second in the swapped order,
\* both saved; the same expression was resolved in both cells
C12_Witness ==
  /\ ord_pass = 2 /\ mp_pc = "done" /\ mp_saves = 2
  /\ Len(doc_orig) = 2
  /\ ord_perm = <<2, 1>>
  /\ doc_orig[1] # doc_orig[2]
  /\ Len(mp_resolved) = 2
  /\ mp_resolved[1].expr = mp_resolved[2].expr
  /\ doc_disk[1].value = NumMinus85

(***************************************************************************)
(* process_workflow: order of the steps                                    *)
(***************************************************************************)

\* seq is Sectors with some entries left out, order kept
InSectorOrder(seq) ==
  \E pick \in SUBSET (1..Len(Sectors)) :
    /\ Cardinality(pick) = Len(seq)
    /\ \A k \in DOMAIN seq :
         \E i \in pick : seq[k] = Sectors[i] /\ Cardinality({j \in pick : j <= i}) = k

C14_SavedExactlyOnce ==
  /\ mp_saves <= 1
  /\ mp_saves = 1 => (wf_pc \in {"map", "done"} /\ Len(wf_routed) = Len(wf_images))
  /\ doc_disk # doc_orig => mp_saves = 1
  /\ (wf_pc = "done" /\ wf_return = "xlsx_path") => mp_saves = 1

(***************************************************************************)
(* process_workflow: early termination                                     *)
(***************************************************************************)

\* the run is over and never entered the mapping pass
EndedBeforeMapping == wf_pc \in {"done", "raised"} /\ mp_pc = "idle"

\* C15: a run that ends before the mapping pass is one that got no image
\* (the workbook could not be read, or held none); it logged that, made no
\* extractor call, left the document as it was and returned no path.
C15_EarlyEndOnlyWithoutImages ==
  EndedBeforeMapping =>
    /\ wf_images = <<>>
    /\ \E i \in DOMAIN ctx_logs : ctx_logs[i] = "[ERROR] No images found."
    /\ wf_service_called = <<>> /\ wf_routed = <<>>
    /\ doc_disk = doc_orig
    /\ wf_return = "None" /\ wf_exc = ""

(***************************************************************************)
(* clean_json_response                                                     *)
(***************************************************************************)

\* number of "{" minus number of "}" in t[i..j]
Balance(t, i, j) ==
  Cardinality({k \in i..j : t[k] = "{"}) - Cardinality({k \in i..j : t[k] = "}"})

\* positions <<i, j>> of the balanced blocks of t: t[i] opens, t[j] is the
\* first "}" that brings the depth back to zero
BalancedBlocks(t) ==
  {<<i, j>> \in (DOMAIN t) \X (DOMAIN t) :
     /\ t[i] = "{" /\ j > i /\ Balance(t, i, j) = 0
     /\ \A k \in i..(j - 1) : Balance(t, i, k) > 0}

FirstBalancedBlock(t) ==
  LET b == CHOOSE b \in BalancedBlocks(t) : \A c \in BalancedBlocks(t) : b[1] <= c[1]
  IN SubSeq(t, b[1], b[2])

\* C16: clean_json_response returns the first balanced {...} block of the
\* content when there is one, and the text {} when there is none.
C16_FirstBalancedBlock ==
  cj_pc = "done" =>
    cj_result = (IF BalancedBlocks(cj_content) # {} THEN FirstBalancedBlock(cj_content) ELSE <<"{", "}">>)

(***************************************************************************)
(* Service pipeline                                                        *)
(***************************************************************************)

\* C17: the Service pipeline runs text extraction on both images whatever
\* the first gives; with at least one text it makes exactly one reasoning
\* call, over IMAGE 1 / IMAGE 2 sections in which a missing text is the
\* placeholder; with no text it makes no reasoning call and returns no
\* record.
C17_ServicePipeline ==
  ex_kind = "service" =>
    /\ ex_pc # "first" => (Len(ex_calls) >= 2 /\ ex_calls[1] = "ocr" /\ ex_calls[2] = "ocr")
    /\ ReasoningCalls <= 1
    /\ ex_result.t = "record" => ReasoningCalls = 1
    /\ ex_pc = "done" =>
         IF ex_text.t = "none" /\ ex_text2.t = "none"
         THEN ex_calls = <<"ocr", "ocr">> /\ ex_result = Absent /\ ex_prompt = <<>>
         ELSE /\ ex_calls = <<"ocr", "ocr", "reasoning">>
              /\ ex_prompt = <<[t |-> "header", fast |-> "IMAGE 1:"],
                               IF ex_text.t = "none" THEN [t |-> "literal", fast |-> "empty"] ELSE ex_text,
                               [t |-> "header", fast |-> "IMAGE 2:"],
                               IF ex_text2.t = "none" THEN [t |-> "literal", fast |-> "empty"] ELSE ex_text2>>

\* a Service run whose first image gave no text and whose second did: one
\* reasoning call, a record returned
C17_Witness ==
  /\ ex_pc = "done"
  /\ ex_kind = "service"
  /\ ex_text.t = "none" /\ ex_text2.t = "text"
  /\ ex_calls = <<"ocr", "ocr", "reasoning">>
  /\ ex_prompt[2] = [t |-> "literal", fast |-> "empty"]
  /\ ex_result.t = "record"

(***************************************************************************)
(* Extraction pipelines: failures                                          *)
(***************************************************************************)

\* the first stage gave the pipeline nothing to parse
FirstStageFailed ==
  IF ex_kind = "service" THEN ex_text.t = "none" /\ ex_text2.t = "none"
  ELSE ex_text.t = "none" \/ ex_text.fast = "empty"

\* the reasoning stage failed: the call gave nothing back, the model's
\* output was empty or held no object, the JSON was malformed, or the
\* object did not validate against the schema
ReasoningFailed ==
  /\ ReasoningCalls = 1
  /\ \/ ex_json.t \in {"none", "malformed"}
     \/ \E i \in DOMAIN ex_json.raw : BalancedBlocks(ex_json.raw[i]) = {}
     \/ ex_json.t = "object" /\ ~schema_cls(FieldsOf(ex_kind), parsed_data(ex_kind, ex_json.data)).ok

\* C18: a pipeline one of whose stages failed returns no record.
C18_FailureGivesAbsentRecord ==
  (ex_pc = "done" /\ (FirstStageFailed \/ ReasoningFailed)) => ex_result = Absent

\* scanned cells whose expression reached a field holding null
NullFieldEntries ==
  {j \in DOMAIN mp_resolved :
     /\ mp_resolved[j].expr = Expr_rsrp
     /\ FieldOf(ctx_service["alpha"], S_nr5g_rsrp) = NoneV}

\* scanned cells whose expression names no top-level key (delta_service) or
\* whose first accessor finds no record (Beta_SpeedTest["beta_image_3"]...
\* with no speed test stored)
FailedEntries ==
  {j \in DOMAIN mp_resolved :
     \/ mp_resolved[j].expr = Expr_delta
     \/ (mp_resolved[j].expr = Expr_speed /\ ctx_speedtest["beta"] = <<>>)}

\* C19: an expression whose path ends at a field holding null resolves to
\* the same result as an unknown identifier or a missing key (None), and the
\* cell receives the text NULL, exactly as the cell of a failed resolution
\* does; the saved document holds NULL in both.
C19_NullFieldWrittenAsUnresolved ==
  \A j \in NullFieldEntries :
    LET r == mp_resolved[j]
    IN /\ r.val = NoneV
       /\ r.val = resolve_expression(Expr_delta)
       /\ r.val = resolve_expression(Expr_speed) \/ ctx_speedtest["beta"] # <<>>
       /\ mp_wb[r.cell].value = Str(S_NULL)
       /\ mp_saves = 1 => doc_disk[r.cell].value = Str(S_NULL)
       /\ \A f \in FailedEntries :
            /\ mp_resolved[f].val = r.val
            /\ mp_wb[mp_resolved[f].cell].value = mp_wb[r.cell].value

\* a document with a null-field expression and an unknown identifier has been
\* saved with NULL in both cells
C19_Witness ==
  /\ mp_pc = "done"
  /\ mp_saves = 1
  /\ NullFieldEntries # {}
  /\ \E f \in FailedEntries : mp_resolved[f].expr = Expr_delta
  /\ \A j \in NullFieldEntries \cup FailedEntries :
       doc_disk[mp_resolved[j].cell].value = Str(S_NULL)

\* the accessors of well-formed shape in an expression written in format fmt
WellFormedAccessors(keys, fmt) == IF fmt = "dot" THEN <<>> ELSE keys

\* the value the identifier and the accessors name in the snapshot
NamedValue(ident, keys) ==
  LET snap == to_dict.items
      tops == {i \in DOMAIN snap : Canon(snap[i].k) = Canon(ident)}
  IN IF tops = {} THEN NoneV
     ELSE PathValue(snap[CHOOSE i \in tops : TRUE].v, keys, 1)

Expr_alpha_dot_rsrp == <<"a","l","p","h","a","_","s","e","r","v","i","c","e",".","n","r","5","g","_","r","s","r","p">>

C20_OtherTextIgnoredOnOneLine ==
  (rs_pc = "done" /\ ~(\E i \in DOMAIN rs_e1 : rs_e1[i] = "\n")) =>
    /\ rs_r1 = NamedValue(rs_ident, WellFormedAccessors(rs_keys, rs_fmt))
    /\ rs_e1 = Expr_alpha_dot_rsrp => rs_r1 = model_dump(ctx_service["alpha"])

\* alpha_service.nr5g_rsrp has been resolved to the whole alpha_service value
C20_Witness ==
  /\ rs_pc = "done"
  /\ rs_e1 = Expr_alpha_dot_rsrp
  /\ rs_r1 = model_dump(ctx_service["alpha"])
  /\ rs_r1.t = "dict"

\* name is <sector>_image_<n> with lo <= n <= hi
IsIdentifierOf(name, sector, lo, hi) ==
  LET p == split(name, "_")
  IN /\ Len(p) = 3
     /\ p[1] = SectorChars(sector)
     /\ p[2] = S_image
     /\ int_of(p[3]).ok
     /\ lo <= int_of(p[3]).n /\ int_of(p[3]).n <= hi

\* the keys of a mapping
KeysOf(items) == {items[i].k : i \in DOMAIN items}

\* the keys stored in the Run Context have the form their mapping asks for
StoredKeysWellFormed ==
  /\ \A s \in SectorSet :
       /\ \A k \in KeysOf(ctx_speedtest[s]) : IsIdentifierOf(k, s, 3, 7)
       /\ \A k \in KeysOf(ctx_video[s]) : IsIdentifierOf(k, s, 8, 8)
  /\ \A k \in KeysOf(ctx_voice_test) : IsIdentifierOf(k, "voicetest", 0, Len(wf_book))

\* the mapping the routing loop stores an image's record in (lines 97, 108,
\* 115): the key is the image's name, the mapping is chosen by the branch
\* taken and the name's first part
RoutedKeysWellFormed ==
  \A i \in DOMAIN wf_images :
    LET name == wf_images[i]
        route == route_of(name)
        s == context_sector(name)
    IN /\ (route = "speed" /\ s # "") => IsIdentifierOf(name, s, 3, 7)
       /\ (route = "video" /\ s # "") => IsIdentifierOf(name, s, 8, 8)
       /\ route = "voice" => IsIdentifierOf(name, "voicetest", 0, Len(wf_book))

\* no name is held twice, over all the mappings and among the images
OneEntryPerImage ==
  /\ \A i, j \in DOMAIN wf_images : wf_images[i] = wf_images[j] => i = j
  /\ LET maps == {<<"voice", ctx_voice_test>>}
                 \cup {<<"speed", s, ctx_speedtest[s]>> : s \in SectorSet}
                 \cup {<<"video", s, ctx_video[s]>> : s \in SectorSet}
         items(m) == m[Len(m)]
     IN /\ \A m \in maps : \A i, j \in DOMAIN items(m) : items(m)[i].k = items(m)[j].k => i = j
        /\ \A m1, m2 \in maps : m1 # m2 => KeysOf(items(m1)) \cap KeysOf(items(m2)) = {}
        /\ \A m \in maps : \A k \in KeysOf(items(m)) : \E i \in DOMAIN wf_images : wf_images[i] = k

\* each Service slot holds a record with every ServiceData field, all null
\* unless a record was stored for that sector by the service loop
ServiceSlotsHoldRecords ==
  \A s \in SectorSet :
    /\ Len(ctx_service[s]) = Len(ServiceFields)
    /\ \A i \in DOMAIN ServiceFields : ctx_service[s][i].k = ServiceFields[i]
    /\ (~\E i \in DOMAIN ctx_logs : ctx_logs[i] = "[SUCCESS] service data extracted.")
         => \A i \in DOMAIN ServiceFields : ctx_service[s][i].v = NoneV

C21_ContextKeys ==
  /\ StoredKeysWellFormed
  /\ RoutedKeysWellFormed
  /\ OneEntryPerImage
  /\ ServiceSlotsHoldRecords

\* a Service slot changes only in the service loop, for the sector being
\* handled, and the step logs the success
ServiceReplacedOnlyOnSuccess ==
  \A s \in SectorSet :
    ctx_service[s]' # ctx_service[s] =>
      /\ wf_pc = "service"
      /\ Sectors[wf_sector] = s
      /\ ctx_logs' = Append(ctx_logs, "[SUCCESS] service data extracted.")

====
